---- MODULE Spec2Model ----
(***************************************************************************)
(* Model of the deSEC provider of external-dns                             *)
(* (internal/provider/desec.go): zone matching, endpoint <-> RRSet         *)
(* conversion, ApplyChanges and AdjustEndpoints.                           *)
(*                                                                         *)
(* A Go string is a sequence of one-character strings, so that suffix      *)
(* tests and trimming are computed as strings.HasSuffix / TrimSuffix do.   *)
(***************************************************************************)
EXTENDS Integers, Sequences, FiniteSets, TLC

VARIABLES
    dryRun,         \* DesecClient.dryRun
    defaultTTL,     \* DesecClient.defaultTTL
    domainFilters,  \* DesecClient.domainFilters
    pc,             \* position of the running call
    changes,        \* plan.Changes given to ApplyChanges
    groups,         \* the map ranged over by the current phase of ApplyChanges
    todo,           \* keys of groups the range loop has not visited yet
    calls,          \* bulk calls received by the provider client, in order
    err,            \* value returned by ApplyChanges
    args,           \* arguments of the function under call
    ret,            \* its return value
    heap,           \* slices and maps endpoints refer to, by address
    workChan,       \* handlePostRecords: the channel of change indices
    wg,             \* handlePostRecords: counter of the sync.WaitGroup
    mu,             \* handlePostRecords: holder of the sync.Mutex, 0 when free
    results,        \* handlePostRecords: results, one slot per change
    local,          \* local variables of each goroutine
    store,          \* the RRSets the provider's API holds, by URL
    processed,      \* number of processChange calls made for each change
    stop,           \* main: buffer of the channel of OS signals
    webhookErrCh,   \* main: buffer of the webhook server's error channel
    healthErrCh     \* main: buffer of the health server's error channel

vars == <<dryRun, defaultTTL, domainFilters, pc, changes, groups, todo, calls, err, args, ret, heap,
          workChan, wg, mu, results, local, store, processed, stop, webhookErrCh, healthErrCh>>

poolVars == <<workChan, wg, mu, results, local, store, processed>>

mainVars == <<stop, webhookErrCh, healthErrCh>>

procVars == <<poolVars, mainVars>>

clientVars == <<dryRun, defaultTTL, domainFilters>>

applyVars == <<changes, groups, todo, calls, err>>

----------------------------------------------------------------------------
(* Bounds of the model *)

MaxNameLen == 5

MaxFilters == 2

\* Endpoints of one list given to mapEndpointsByHostname.
MaxEndpoints == 3

\* Targets of one endpoint.
MaxTargets == 2

\* Endpoints of one plan.Changes, over its Create, UpdateNew and Delete lists.
MaxChanges == 3

\* Minimum TTL for desec is 3600 seconds
minimumTTL == 3600

----------------------------------------------------------------------------
(* Strings *)

Alphabet == {"a", "b", "."}

Dot == <<".">>

Empty == <<>>

RECURSIVE StringsUpTo(_)
StringsUpTo(n) ==
    IF n = 0 THEN {Empty}
    ELSE LET shorter == StringsUpTo(n - 1)
         IN  shorter \cup {Append(s, c) : s \in shorter, c \in Alphabet}

RECURSIVE ListsUpTo(_, _)
ListsUpTo(S, n) ==
    IF n = 0 THEN {<<>>}
    ELSE LET shorter == ListsUpTo(S, n - 1)
         IN  shorter \cup {Append(l, x) : l \in shorter, x \in S}

RECURSIVE ListsOfLen(_, _)
ListsOfLen(S, n) ==
    IF n = 0 THEN {<<>>}
    ELSE {Append(l, x) : l \in ListsOfLen(S, n - 1), x \in S}

HasSuffix(s, suffix) ==
    /\ Len(s) >= Len(suffix)
    /\ SubSeq(s, Len(s) - Len(suffix) + 1, Len(s)) = suffix

TrimSuffix(s, suffix) ==
    IF HasSuffix(s, suffix) THEN SubSeq(s, 1, Len(s) - Len(suffix)) ELSE s

----------------------------------------------------------------------------
(* findMatchingDomain *)

\* Faulty variant of filterMatches: a plain textual suffix test, without the label
\* boundary "." in front of the filter.
filterMatchesNoBoundary(dnsName, filter) ==
    dnsName = filter \/ HasSuffix(dnsName, filter)

\* The test of one filter (already trimmed) against the trimmed name.
filterMatches(dnsName, filter) ==
    dnsName = filter \/ HasSuffix(dnsName, Dot \o filter)

\* Faulty variant of keepLongest: the first matching filter is kept.
keepFirst(filter, longestMatch) ==
    IF longestMatch = Empty THEN filter ELSE longestMatch

\* Faulty variant of keepLongest: the last matching filter is kept.
keepLast(filter, longestMatch) == filter

\* if len(filter) > len(longestMatch) { longestMatch = filter }
keepLongest(filter, longestMatch) ==
    IF Len(filter) > Len(longestMatch) THEN filter ELSE longestMatch

\* The loop over domainFilters, from index i on, with the match kept so far.
RECURSIVE findMatchingDomainLoop(_, _, _, _)
findMatchingDomainLoop(dnsName, filters, i, longestMatch) ==
    IF i > Len(filters) THEN longestMatch
    ELSE LET filter == TrimSuffix(filters[i], Dot)
         IN  findMatchingDomainLoop(dnsName, filters, i + 1,
                 IF filterMatches(dnsName, filter)
                 THEN keepLongest(filter, longestMatch)
                 ELSE longestMatch)

findMatchingDomain(dnsName, filters) ==
    findMatchingDomainLoop(TrimSuffix(dnsName, Dot), filters, 1, Empty)

----------------------------------------------------------------------------
(* CreateDesecClient *)

\* Faulty variant of CreateDesecClient: keeps the configured default TTL as given.
CreateDesecClientNoClamp(config) ==
    [dryRun |-> config.DryRun,
     defaultTTL |-> config.DefaultTTL,
     domainFilters |-> config.DomainFilters]

CreateDesecClient(config) ==
    [dryRun |-> config.DryRun,
     defaultTTL |-> IF config.DefaultTTL < minimumTTL THEN minimumTTL ELSE config.DefaultTTL,
     domainFilters |-> config.DomainFilters]

----------------------------------------------------------------------------
(* Endpoint <-> RRSet conversion *)

\* A nil *endpoint.Endpoint / *desec.RRSet.
NilEndpoint == [nil |-> TRUE]

NilRRSet == [nil |-> TRUE]

\* Faulty variant of extractSubname: the apex is not told apart.
extractSubnameNoApex(dnsName, domain) ==
    TrimSuffix(TrimSuffix(dnsName, Dot), Dot \o TrimSuffix(domain, Dot))

extractSubname(dnsName, domain) ==
    LET n == TrimSuffix(dnsName, Dot)
        d == TrimSuffix(domain, Dot)
    IN  IF n = d THEN Empty ELSE TrimSuffix(n, Dot \o d)

\* Faulty variant of normalizeTarget: a dot is appended to every CNAME target.
normalizeTargetAlwaysDot(recordType, target) ==
    IF recordType = "CNAME" THEN target \o Dot ELSE target

\* The body of the loop over ep.Targets.
normalizeTarget(recordType, target) ==
    IF recordType = "CNAME" /\ ~HasSuffix(target, Dot) THEN target \o Dot ELSE target

\* Faulty variant of normalizeTTL: a TTL below the minimum is raised to the minimum.
normalizeTTLClamp(recordTTL, default) ==
    IF recordTTL = 0 THEN default
    ELSE IF recordTTL < minimumTTL THEN minimumTTL ELSE recordTTL

\* The TTL rule of convertEndpointToRRSet.
normalizeTTL(recordTTL, default) ==
    IF recordTTL = 0 \/ recordTTL < minimumTTL THEN default ELSE recordTTL

convertEndpointToRRSet(ep, domain, default) ==
    IF ep = NilEndpoint THEN NilRRSet
    ELSE [SubName |-> extractSubname(ep.DNSName, domain),
          Type    |-> ep.RecordType,
          Records |-> [i \in 1..Len(ep.Targets) |-> normalizeTarget(ep.RecordType, ep.Targets[i])],
          TTL     |-> normalizeTTL(ep.RecordTTL, default)]

----------------------------------------------------------------------------
(* mapEndpointsByHostname *)

\* result[matchedDomain] = append(result[matchedDomain], ep)
mapAppend(result, matchedDomain, ep) ==
    [d \in DOMAIN result \cup {matchedDomain} |->
        IF d = matchedDomain
        THEN Append(IF d \in DOMAIN result THEN result[d] ELSE <<>>, ep)
        ELSE result[d]]

\* The guard that makes the loop skip an endpoint.
skipEndpoint(ep) ==
    ep = NilEndpoint \/ ep.DNSName = Empty

\* Faulty variant of matchEndpoint: the zone is the name without its first label,
\* whatever the filters are.
matchEndpointParent(ep, filters) ==
    LET n == TrimSuffix(ep.DNSName, Dot)
        dots == {i \in 1..Len(n) : n[i] = "."}
    IN  IF dots = {} THEN n
        ELSE SubSeq(n, (CHOOSE i \in dots : \A j \in dots : i <= j) + 1, Len(n))

\* The zone an endpoint is mapped to: the name is trimmed, then matched.
matchEndpoint(ep, filters) ==
    findMatchingDomain(TrimSuffix(ep.DNSName, Dot), filters)

RECURSIVE mapEndpointsLoop(_, _, _, _)
mapEndpointsLoop(endpoints, filters, i, result) ==
    IF i > Len(endpoints) THEN result
    ELSE LET ep == endpoints[i]
         IN  IF skipEndpoint(ep)
             THEN mapEndpointsLoop(endpoints, filters, i + 1, result)
             ELSE LET matchedDomain == matchEndpoint(ep, filters)
                  IN  IF matchedDomain = Empty
                      THEN mapEndpointsLoop(endpoints, filters, i + 1, result)
                      ELSE mapEndpointsLoop(endpoints, filters, i + 1,
                               mapAppend(result, matchedDomain, ep))

mapEndpointsByHostname(endpoints, filters) ==
    mapEndpointsLoop(endpoints, filters, 1, <<>>)

----------------------------------------------------------------------------
(* Inputs *)

Names == StringsUpTo(MaxNameLen)

\* Zone names a deployment configures: a zone, a sub-zone of it, an unrelated
\* zone, a zone written with a trailing dot, and a zone whose text is a
\* suffix of other names without being a parent of them.
FilterPool ==
    { <<"a">>, <<"b", ".", "a">>, <<"b">>, <<"a", ".">>, <<"b", "a">>, <<"a", ".", "a">> }

FilterLists == ListsUpTo(FilterPool, MaxFilters) \ {<<>>}

NoChanges == [Create |-> <<>>, UpdateNew |-> <<>>, UpdateOld |-> <<>>, Delete |-> <<>>]

\* The variables of ApplyChanges while no ApplyChanges call is running.
ApplyIdle ==
    /\ changes = NoChanges
    /\ groups = <<>>
    /\ todo = {}
    /\ calls = <<>>
    /\ err = "none"

\* No goroutine has been started and no channel made.
ProcIdle ==
    /\ workChan = [buf |-> <<>>, closed |-> FALSE]
    /\ wg = 0
    /\ mu = 0
    /\ results = <<>>
    /\ local = <<>>
    /\ store = <<>>
    /\ processed = <<>>
    /\ stop = <<>>
    /\ webhookErrCh = <<>>
    /\ healthErrCh = <<>>

\* Endpoints of a change set: the apex of a sub-zone, a name written with a
\* trailing dot, a name with no targets, a name ending in two dots, a name
\* below the zone, and a nil pointer.
Ep1 == [DNSName |-> <<"b", ".", "a">>, RecordType |-> "A",
        Targets |-> << <<"a">> >>, RecordTTL |-> 0]

Ep2 == [DNSName |-> <<"a", ".", "a", ".">>, RecordType |-> "CNAME",
        Targets |-> << <<"a">>, <<"b", ".">> >>, RecordTTL |-> 300]

Ep3 == [DNSName |-> <<"a", ".", "b">>, RecordType |-> "A",
        Targets |-> <<>>, RecordTTL |-> 7200]

Ep4 == [DNSName |-> <<"a", ".", ".">>, RecordType |-> "TXT",
        Targets |-> << <<"b">> >>, RecordTTL |-> -1]

Ep5 == [DNSName |-> <<"a", ".", "b", ".", "a">>, RecordType |-> "CNAME",
        Targets |-> << <<"a", ".">> >>, RecordTTL |-> 3600]

\* An endpoint without a name.
Ep6 == [DNSName |-> Empty, RecordType |-> "A",
        Targets |-> << <<"a">> >>, RecordTTL |-> 3600]

EndpointPool == {Ep1, Ep2, Ep3, Ep4, Ep5, Ep6, NilEndpoint}

\* The endpoints change sets are made of.
ChangePool == {Ep1, Ep2, Ep3, Ep4, NilEndpoint}

\* The change sets with at most MaxChanges endpoints over the three lists
\* ApplyChanges reads.
ChangeSets ==
    UNION { [Create : ListsOfLen(ChangePool, c),
             UpdateNew : ListsOfLen(ChangePool, u),
             UpdateOld : {<<>>, <<Ep5>>},
             Delete : ListsOfLen(ChangePool, d)] :
            <<c, u, d>> \in { t \in (0..MaxChanges) \X (0..MaxChanges) \X (0..MaxChanges) :
                                 t[1] + t[2] + t[3] <= MaxChanges } }

\* Configurations handed to CreateDesecClient.
Configs ==
    [DryRun : BOOLEAN,
     DefaultTTL : {-1, 0, 300, 3600, 7200},
     DomainFilters : { << <<"a">>, <<"b", ".", "a">> >>, << <<"a", ".">>, <<"b">> >> }]

\* Errors a bulk call of the provider client can return.
Errors == {"err1", "err2"}

----------------------------------------------------------------------------
(* ApplyChanges *)

Phases == {"create", "update", "delete"}

BulkOp(phase) ==
    CASE phase = "create" -> "BulkCreate"
      [] phase = "update" -> "BulkUpdate"
      [] phase = "delete" -> "BulkDelete"

\* Faulty variant of PhaseList: the update phase also maps the old versions
\* of the updated endpoints.
PhaseListWithOld(ch, phase) ==
    CASE phase = "create" -> ch.Create
      [] phase = "update" -> ch.UpdateNew \o ch.UpdateOld
      [] phase = "delete" -> ch.Delete

\* The list each phase maps by hostname.
PhaseList(ch, phase) ==
    CASE phase = "create" -> ch.Create
      [] phase = "update" -> ch.UpdateNew
      [] phase = "delete" -> ch.Delete

\* Faulty variant of NextPhase: the delete loop is placed before the update loop.
NextPhaseDeleteFirst(phase) ==
    CASE phase = "create" -> "delete"
      [] phase = "delete" -> "update"
      [] phase = "update" -> "done"

NextPhase(phase) ==
    CASE phase = "create" -> "update"
      [] phase = "update" -> "delete"
      [] phase = "delete" -> "done"

\* Faulty variant of convertedEndpoint: the TTL used for the RRSet is written
\* to the endpoint.
convertedEndpointDefaultTTL(ep, domain, default) ==
    IF ep = NilEndpoint THEN ep
    ELSE [ep EXCEPT !.RecordTTL = normalizeTTL(@, default)]

\* The endpoint as convertEndpointToRRSet leaves it: the function reads the
\* fields of *ep and assigns none of them; records is a slice of its own.
convertedEndpoint(ep, domain, default) == ep

\* A list after the endpoints of a zone have been converted.
convertedList(endpoints, domain, filters, default) ==
    [i \in 1..Len(endpoints) |->
        IF ~skipEndpoint(endpoints[i]) /\ matchEndpoint(endpoints[i], filters) = domain
        THEN convertedEndpoint(endpoints[i], domain, default)
        ELSE endpoints[i]]

\* The change set after the batch of a zone has been built in a phase.
AfterBatch(ch, phase, domain, filters, default) ==
    CASE phase = "create" ->
             [ch EXCEPT !.Create = convertedList(@, domain, filters, default)]
      [] phase = "update" ->
             [ch EXCEPT !.UpdateNew = convertedList(@, domain, filters, default)]
      [] phase = "delete" ->
             [ch EXCEPT !.Delete = convertedList(@, domain, filters, default)]

\* toCreate / toUpdate / toDelete of one zone.
Batch(endpoints, domain, default) ==
    [i \in 1..Len(endpoints) |-> convertEndpointToRRSet(endpoints[i], domain, default)]

\* ApplyChanges is entered: the Create list is mapped by hostname.
ApplyChanges(ch) ==
    /\ pc = "ready"
    /\ pc' = "create"
    /\ changes' = ch
    /\ groups' = mapEndpointsByHostname(ch.Create, domainFilters)
    /\ todo' = DOMAIN groups'
    /\ calls' = <<>>
    /\ err' = "none"
    /\ UNCHANGED <<clientVars, procVars, heap, args, ret>>

\* Faulty variant of DryRunZone: the bulk call is made in dry-run mode too.
DryRunZoneCalls(domain) ==
    /\ pc \in Phases
    /\ domain \in todo
    /\ dryRun
    /\ calls' = Append(calls, [op |-> BulkOp(pc), zone |-> domain,
                               batch |-> Batch(groups[domain], domain, defaultTTL),
                               err |-> "nil"])
    /\ todo' = todo \ {domain}
    /\ changes' = AfterBatch(changes, pc, domain, domainFilters, defaultTTL)
    /\ UNCHANGED <<clientVars, procVars, heap, pc, groups, err, args, ret>>

\* One iteration of a phase's range loop in dry-run mode: the batch is
\* converted and logged, and the provider client is not called.
DryRunZone(domain) ==
    /\ pc \in Phases
    /\ domain \in todo
    /\ dryRun
    /\ todo' = todo \ {domain}
    /\ changes' = AfterBatch(changes, pc, domain, domainFilters, defaultTTL)
    /\ UNCHANGED <<clientVars, procVars, heap, pc, groups, calls, err, args, ret>>

\* One iteration in real mode whose bulk call succeeds.
BulkSucceeds(domain) ==
    /\ pc \in Phases
    /\ domain \in todo
    /\ ~dryRun
    /\ calls' = Append(calls, [op |-> BulkOp(pc), zone |-> domain,
                               batch |-> Batch(groups[domain], domain, defaultTTL),
                               err |-> "nil"])
    /\ todo' = todo \ {domain}
    /\ changes' = AfterBatch(changes, pc, domain, domainFilters, defaultTTL)
    /\ UNCHANGED <<clientVars, procVars, heap, pc, groups, err, args, ret>>

\* Faulty variant of BulkFails: the error is logged and the loop goes on.
BulkFailsGoesOn(domain, e) ==
    /\ pc \in Phases
    /\ domain \in todo
    /\ ~dryRun
    /\ calls' = Append(calls, [op |-> BulkOp(pc), zone |-> domain,
                               batch |-> Batch(groups[domain], domain, defaultTTL),
                               err |-> e])
    /\ todo' = todo \ {domain}
    /\ changes' = AfterBatch(changes, pc, domain, domainFilters, defaultTTL)
    /\ UNCHANGED <<clientVars, procVars, heap, pc, groups, err, args, ret>>

\* One iteration in real mode whose bulk call fails: ApplyChanges returns
\* the error.
BulkFails(domain, e) ==
    /\ pc \in Phases
    /\ domain \in todo
    /\ ~dryRun
    /\ calls' = Append(calls, [op |-> BulkOp(pc), zone |-> domain,
                               batch |-> Batch(groups[domain], domain, defaultTTL),
                               err |-> e])
    /\ pc' = "done"
    /\ err' = e
    /\ changes' = AfterBatch(changes, pc, domain, domainFilters, defaultTTL)
    /\ UNCHANGED <<clientVars, procVars, heap, groups, todo, args, ret>>

\* A phase's range loop is over: the next list is mapped, or nil is returned.
EndPhase ==
    /\ pc \in Phases
    /\ todo = {}
    /\ pc' = NextPhase(pc)
    /\ IF pc' = "done"
       THEN /\ err' = "nil"
            /\ UNCHANGED <<groups, todo>>
       ELSE /\ groups' = mapEndpointsByHostname(PhaseList(changes, pc'), domainFilters)
            /\ todo' = DOMAIN groups'
            /\ err' = err
    /\ UNCHANGED <<clientVars, procVars, heap, changes, calls, args, ret>>

Init ==
    /\ \E config \in Configs :
          LET d == CreateDesecClient(config)
          IN  /\ dryRun = d.dryRun
              /\ defaultTTL = d.defaultTTL
              /\ domainFilters = d.domainFilters
    /\ pc = "ready"
    /\ ApplyIdle
    /\ ProcIdle
    /\ heap = <<>>
    /\ args = Empty
    /\ ret = Empty

Next ==
    \/ pc = "ready" /\ \E ch \in ChangeSets : ApplyChanges(ch)
    \/ \E domain \in todo : DryRunZone(domain)
    \/ \E domain \in todo : BulkSucceeds(domain)
    \/ \E domain \in todo, e \in Errors : BulkFails(domain, e)
    \/ EndPhase

Spec == Init /\ [][Next]_vars

----------------------------------------------------------------------------
(* Claims about ApplyChanges *)

Failed(i) == calls[i].err # "nil"

\* C2: in real mode a bulk call that returns an error is the last provider
\* call of the invocation, and ApplyChanges has returned that error.
C2_AbortOnFailure ==
    \A i \in 1..Len(calls) :
        Failed(i) => /\ i = Len(calls)
                     /\ pc = "done"
                     /\ err = calls[i].err

\* The create of one zone has succeeded, the create of a second zone has
\* failed, and the change set holds updates and deletes that were not sent.
C2_Witness ==
    /\ Len(calls) = 2
    /\ calls[1].op = "BulkCreate" /\ ~Failed(1)
    /\ calls[2].op = "BulkCreate" /\ Failed(2)
    /\ err = "err2"
    /\ DOMAIN mapEndpointsByHostname(changes.Delete, domainFilters) # {}

OpRank(op) ==
    CASE op = "BulkCreate" -> 1
      [] op = "BulkUpdate" -> 2
      [] op = "BulkDelete" -> 3

MatchedZones(endpoints) == DOMAIN mapEndpointsByHostname(endpoints, domainFilters)

SucceededBefore(op, zone, j) ==
    \E i \in 1..(j - 1) : calls[i].op = op /\ calls[i].zone = zone /\ ~Failed(i)

\* C3: creates come before updates and updates before deletes; an update is
\* sent only after the create of every matched zone has succeeded, a delete
\* only after the update of every matched zone has succeeded.
C3_PhaseOrder ==
    /\ \A i, j \in 1..Len(calls) : i < j => OpRank(calls[i].op) <= OpRank(calls[j].op)
    /\ \A j \in 1..Len(calls) :
          /\ calls[j].op \in {"BulkUpdate", "BulkDelete"} =>
                \A z \in MatchedZones(changes.Create) : SucceededBefore("BulkCreate", z, j)
          /\ calls[j].op = "BulkDelete" =>
                \A z \in MatchedZones(changes.UpdateNew) : SucceededBefore("BulkUpdate", z, j)

\* A create, an update and a delete were sent, in this order.
C3_Witness ==
    /\ Len(calls) = 3
    /\ calls[1].op = "BulkCreate"
    /\ calls[2].op = "BulkUpdate"
    /\ calls[3].op = "BulkDelete"

\* C4: in dry-run mode no bulk call is made, and ApplyChanges returns nil.
C4_DryRun ==
    dryRun => /\ calls = <<>>
              /\ pc = "done" => err = "nil"

\* A dry run has returned for a change set with a matched endpoint in each
\* of the three lists.
C4_Witness ==
    /\ dryRun
    /\ pc = "done"
    /\ MatchedZones(changes.Create) # {}
    /\ MatchedZones(changes.UpdateNew) # {}
    /\ MatchedZones(changes.Delete) # {}

\* C5: every RRSet handed to a bulk call has a TTL of at least 3600.
C5_MinimumTTL ==
    \A i \in 1..Len(calls) :
        \A k \in 1..Len(calls[i].batch) : calls[i].batch[k].TTL >= 3600

\* An endpoint with a negative TTL was sent with the TTL 3600.
C5_Witness ==
    /\ Len(calls) = 1
    /\ changes.Create = <<Ep4>>
    /\ calls[1].batch[1].TTL = 3600

\* C6: every bulk call is made for a zone of the domain filters (trailing
\* dot aside).
C6_ZoneIsFilter ==
    \A i \in 1..Len(calls) :
        \E k \in 1..Len(domainFilters) : calls[i].zone = TrimSuffix(domainFilters[k], Dot)

\* A change set with a name that matches no filter and one that matches a
\* filter written with a trailing dot has made its only call.
C6_Witness ==
    /\ domainFilters = << <<"a", ".">>, <<"b">> >>
    /\ changes.Create = <<Ep2>>
    /\ pc = "done"
    /\ Len(calls) = 1
    /\ calls[1].zone = <<"a">>

\* The endpoints of a list whose name matches no filter, by findMatchingDomain.
Unmatched(endpoints) ==
    { i \in 1..Len(endpoints) :
        /\ endpoints[i] # NilEndpoint
        /\ findMatchingDomain(endpoints[i].DNSName, domainFilters) = Empty }

OnlyUnmatched(endpoints) == Unmatched(endpoints) = 1..Len(endpoints)

\* C10 (as claimed): a change set in which every endpoint matches no
\* configured zone returns nil without any provider call.
C10_UnmatchedNeverCalls ==
    ( /\ pc = "done"
      /\ OnlyUnmatched(changes.Create)
      /\ OnlyUnmatched(changes.UpdateNew)
      /\ OnlyUnmatched(changes.Delete) )
    => calls = <<>> /\ err = "nil"

----------------------------------------------------------------------------
(* Specification SpecMatch: findMatchingDomain applied to a name and a     *)
(* filter list.                                                            *)

InitMatch ==
    /\ dryRun = FALSE
    /\ defaultTTL = minimumTTL
    /\ domainFilters \in FilterLists
    /\ pc = "ready"
    /\ ApplyIdle
    /\ ProcIdle
    /\ heap = <<>>
    /\ args \in Names
    /\ ret = Empty

CallFindMatchingDomain ==
    /\ pc = "ready"
    /\ pc' = "returned"
    /\ ret' = findMatchingDomain(args, domainFilters)
    /\ UNCHANGED <<clientVars, procVars, heap, applyVars, args>>

NextMatch == CallFindMatchingDomain

SpecMatch == InitMatch /\ [][NextMatch]_vars

----------------------------------------------------------------------------
(* Claims about findMatchingDomain *)

\* name = f, or name = p ++ "." ++ f for some prefix p
Qualifies(name, f) ==
    \/ name = f
    \/ \E k \in 0..Len(name) :
          /\ k + 1 + Len(f) = Len(name)
          /\ name[k + 1] = "."
          /\ \A j \in 1..Len(f) : name[k + 1 + j] = f[j]

QualifyingFilters(name, filters) ==
    { TrimSuffix(filters[i], Dot) : i \in
        { j \in 1..Len(filters) : Qualifies(TrimSuffix(name, Dot), TrimSuffix(filters[j], Dot)) } }

\* C1: the result of findMatchingDomain is the longest filter (trailing dot
\* removed) that equals the name (trailing dot removed) or is a suffix of it
\* at a label boundary; it is the empty string when no filter qualifies.
C1_LongestMatch ==
    pc = "returned" =>
        LET Q == QualifyingFilters(args, domainFilters)
        IN  IF Q = {} THEN ret = Empty
            ELSE /\ ret \in Q
                 /\ \A q \in Q : Len(q) <= Len(ret)

\* A name under a zone and its sub-zone, both configured, with a third
\* filter that is only a textual suffix: the sub-zone is returned.
C1_Witness ==
    /\ pc = "returned"
    /\ args = <<"a", ".", "b", ".", "a">>
    /\ domainFilters = << <<"a">>, <<"b", ".", "a">> >>
    /\ ret = <<"b", ".", "a">>

----------------------------------------------------------------------------
(* Specification SpecConvert: convertEndpointToRRSet applied to an         *)
(* endpoint, a zone and a default TTL.                                     *)

TargetPool == { <<"a">>, <<"a", ".">>, Empty, Dot }

ConvertEndpoints ==
    [DNSName : { <<"a">>, <<"b", ".", "a">>, <<"a", ".", "b", ".", "a", ".">>, <<"a", ".", ".">> },
     RecordType : {"A", "CNAME", "TXT"},
     Targets : ListsUpTo(TargetPool, MaxTargets),
     RecordTTL : {-1, 0, 300, 3599, 3600, 3601, 7200}]
    \cup {NilEndpoint}

InitConvert ==
    /\ dryRun = FALSE
    /\ defaultTTL = minimumTTL
    /\ domainFilters = << <<"a">> >>
    /\ pc = "ready"
    /\ ApplyIdle
    /\ ProcIdle
    /\ heap = <<>>
    /\ args \in [ep : ConvertEndpoints,
                 domain : { <<"a">>, <<"b", ".", "a">>, <<"a", ".">> },
                 defaultTTL : {300, 3600, 7200}]
    /\ ret = NilRRSet

CallConvertEndpointToRRSet ==
    /\ pc = "ready"
    /\ pc' = "returned"
    /\ ret' = convertEndpointToRRSet(args.ep, args.domain, args.defaultTTL)
    /\ UNCHANGED <<clientVars, procVars, heap, applyVars, args>>

NextConvert == CallConvertEndpointToRRSet

SpecConvert == InitConvert /\ [][NextConvert]_vars

Converted == pc = "returned" /\ args.ep # NilEndpoint

\* C7: the RRSet's TTL is the default TTL when the endpoint's TTL is 0 or
\* below 3600, and the endpoint's TTL when it is 3600 or more.
C7_TTLRule ==
    Converted =>
        /\ (args.ep.RecordTTL = 0 \/ args.ep.RecordTTL < 3600) => ret.TTL = args.defaultTTL
        /\ args.ep.RecordTTL >= 3600 => ret.TTL = args.ep.RecordTTL

\* TTL 300 with the default TTL 7200 has given 7200.
C7_Witness ==
    /\ Converted
    /\ args.ep.RecordTTL = 300
    /\ args.defaultTTL = 7200
    /\ ret.TTL = 7200

EndsWithDot(s) == Len(s) > 0 /\ s[Len(s)] = "."

\* C8: one record per target, in order; a CNAME record is its target with a
\* dot appended unless the target ends with one, so it ends with a dot; a
\* record of another type is its target.
C8_Records ==
    Converted =>
        /\ Len(ret.Records) = Len(args.ep.Targets)
        /\ \A i \in 1..Len(args.ep.Targets) :
              LET t == args.ep.Targets[i]
                  r == ret.Records[i]
              IN  IF args.ep.RecordType = "CNAME"
                  THEN /\ r = (IF EndsWithDot(t) THEN t ELSE Append(t, "."))
                       /\ EndsWithDot(r)
                  ELSE r = t

\* A CNAME with a target without dot followed by a target with one.
C8_Witness ==
    /\ Converted
    /\ args.ep.RecordType = "CNAME"
    /\ args.ep.Targets = << <<"a">>, <<"a", ".">> >>
    /\ ret.Records = << <<"a", ".">>, <<"a", ".">> >>

----------------------------------------------------------------------------
(* Specification SpecMap: mapEndpointsByHostname applied to a list of      *)
(* endpoints.                                                              *)

InitMap ==
    /\ dryRun = FALSE
    /\ defaultTTL = minimumTTL
    /\ domainFilters \in FilterLists
    /\ pc = "ready"
    /\ ApplyIdle
    /\ ProcIdle
    /\ heap = <<>>
    /\ args \in ListsUpTo(EndpointPool, MaxEndpoints)
    /\ ret = <<>>

CallMapEndpointsByHostname ==
    /\ pc = "ready"
    /\ pc' = "returned"
    /\ ret' = mapEndpointsByHostname(args, domainFilters)
    /\ UNCHANGED <<clientVars, procVars, heap, applyVars, args>>

NextMap == CallMapEndpointsByHostname

SpecMap == InitMap /\ [][NextMap]_vars

\* The group an endpoint belongs to by findMatchingDomain of its name; the
\* empty string when it belongs to none.
GroupOf(ep) ==
    IF ep = NilEndpoint THEN Empty
    ELSE IF ep.DNSName = Empty THEN Empty
    ELSE findMatchingDomain(ep.DNSName, domainFilters)

RECURSIVE Select(_, _)
Select(endpoints, zone) ==
    IF endpoints = <<>> THEN <<>>
    ELSE IF GroupOf(Head(endpoints)) = zone
         THEN <<Head(endpoints)>> \o Select(Tail(endpoints), zone)
         ELSE Select(Tail(endpoints), zone)

\* C9 (as claimed): the groups are exactly the zones findMatchingDomain
\* gives for the names of the endpoints, each group holds the endpoints of
\* its zone in input order, and the others are in no group.
C9_Partition ==
    pc = "returned" =>
        /\ DOMAIN ret = {GroupOf(args[i]) : i \in 1..Len(args)} \ {Empty}
        /\ \A zone \in DOMAIN ret : ret[zone] = Select(args, zone)

----------------------------------------------------------------------------
(* AdjustEndpoints *)

\* An endpoint of AdjustEndpoints is the Endpoint struct: Targets and
\* ProviderSpecific are slices and Labels is a map, each held as the address
\* of its contents in heap.  Address 0 is the nil slice and the nil map.
NilRef == 0

\* The contents a slice address refers to.
SliceAt(h, addr) == IF addr = NilRef THEN <<>> ELSE h[addr]

\* The contents a map address refers to.
NoLabels == [nil |-> TRUE]

MapAt(h, addr) == IF addr = NilRef THEN NoLabels ELSE h[addr]

\* The struct literal "adjusted": the map and the slice header are assigned,
\* so the copy refers to the contents the input refers to.
adjustedCopy(ep) ==
    [DNSName |-> ep.DNSName, RecordType |-> ep.RecordType,
     SetIdentifier |-> ep.SetIdentifier, RecordTTL |-> ep.RecordTTL,
     Labels |-> ep.Labels, ProviderSpecific |-> ep.ProviderSpecific,
     Targets |-> NilRef]

\* Faulty variant of adjustTTL: a TTL below the minimum is raised to it.
adjustTTLClamp(recordTTL, default) ==
    IF recordTTL < minimumTTL THEN minimumTTL ELSE recordTTL

\* Faulty variant of adjustTTL: the TTL of the input is kept.
adjustTTLKeep(recordTTL, default) == recordTTL

adjustTTL(recordTTL, default) ==
    IF recordTTL = 0 \/ recordTTL < minimumTTL THEN default ELSE recordTTL

\* Faulty variant of adjustTarget: the dot is appended to every CNAME target.
adjustTargetAlwaysDot(recordType, target) ==
    IF recordType = "CNAME" THEN target \o Dot ELSE target

adjustTarget(recordType, target) ==
    IF recordType = "CNAME" /\ ~HasSuffix(target, Dot) THEN target \o Dot ELSE target

\* The contents of the slice made for adjusted.Targets.
adjustTargets(recordType, targets) ==
    [i \in 1..Len(targets) |-> adjustTarget(recordType, targets[i])]

\* Faulty variant of adjustSkip: only nil endpoints are skipped.
adjustSkipNilOnly(ep, filters) == ep = NilEndpoint

\* The two "continue" conditions of the loop.
adjustSkip(ep, filters) ==
    \/ ep = NilEndpoint
    \/ findMatchingDomain(ep.DNSName, filters) = Empty

RECURSIVE adjustLoop(_, _, _, _, _, _)
adjustLoop(endpoints, filters, default, i, adjustedEndpoints, h) ==
    IF i > Len(endpoints)
    THEN [endpoints |-> adjustedEndpoints, err |-> "nil", heap |-> h]
    ELSE LET ep == endpoints[i]
         IN  IF adjustSkip(ep, filters)
             THEN adjustLoop(endpoints, filters, default, i + 1, adjustedEndpoints, h)
             ELSE LET h2 == Append(h, adjustTargets(ep.RecordType, SliceAt(h, ep.Targets)))
                      adjusted == [adjustedCopy(ep) EXCEPT
                                      !.RecordTTL = adjustTTL(@, default),
                                      !.Targets = Len(h2)]
                  IN  adjustLoop(endpoints, filters, default, i + 1,
                                 Append(adjustedEndpoints, adjusted), h2)

\* list.nil is the nil slice of endpoints.  The result carries the heap with
\* the slices AdjustEndpoints has made.
AdjustEndpoints(list, filters, default, h) ==
    IF list.nil
    THEN [endpoints |-> <<>>, err |-> "nil", heap |-> h]
    ELSE adjustLoop(list.endpoints, filters, default, 1, <<>>, h)

----------------------------------------------------------------------------
(* Specification SpecAdjust: AdjustEndpoints applied to a list of          *)
(* endpoints; after it has returned, the caller writes through one of the  *)
(* inputs or one of the results.                                           *)

\* Endpoints by value: an A record with TTL 300 under a zone, a CNAME with an
\* identifier and provider-specific properties, an endpoint with no targets,
\* a name ending in two dots, and an endpoint that needs no adjustment.
Adj1 == [DNSName |-> <<"a", ".", "a">>, RecordType |-> "A", SetIdentifier |-> Empty,
         RecordTTL |-> 300, Targets |-> << <<"a">> >>,
         Labels |-> [owner |-> <<"a">>], ProviderSpecific |-> <<>>]

Adj2 == [DNSName |-> <<"a", ".", "a", ".">>, RecordType |-> "CNAME", SetIdentifier |-> <<"a">>,
         RecordTTL |-> 0, Targets |-> << <<"a">>, <<"b", ".">> >>,
         Labels |-> NoLabels,
         ProviderSpecific |-> << [Name |-> <<"a">>, Value |-> <<"b">>] >>]

Adj3 == [DNSName |-> <<"a", ".", "b">>, RecordType |-> "A", SetIdentifier |-> Empty,
         RecordTTL |-> 7200, Targets |-> <<>>,
         Labels |-> [owner |-> <<"b">>],
         ProviderSpecific |-> << [Name |-> <<"b">>, Value |-> <<"a">>] >>]

Adj4 == [DNSName |-> <<"a", ".", ".">>, RecordType |-> "TXT", SetIdentifier |-> Empty,
         RecordTTL |-> -1, Targets |-> << <<"b">> >>,
         Labels |-> NoLabels, ProviderSpecific |-> <<>>]

Adj5 == [DNSName |-> <<"a", ".", "b", ".", "a">>, RecordType |-> "CNAME", SetIdentifier |-> <<"b">>,
         RecordTTL |-> 3600, Targets |-> << <<"a", ".">> >>,
         Labels |-> [owner |-> <<"a">>],
         ProviderSpecific |-> << [Name |-> <<"a">>, Value |-> <<"a">>] >>]

\* A CNAME one second below the minimum TTL whose targets are the empty
\* string and a dot, and a TXT with a negative TTL.
Adj6 == [DNSName |-> <<"b", ".", "a">>, RecordType |-> "CNAME", SetIdentifier |-> Empty,
         RecordTTL |-> 3599, Targets |-> << Empty, Dot >>,
         Labels |-> NoLabels, ProviderSpecific |-> <<>>]

Adj7 == [DNSName |-> <<"a", ".", "b", ".">>, RecordType |-> "TXT", SetIdentifier |-> Empty,
         RecordTTL |-> -1, Targets |-> << <<"a">> >>,
         Labels |-> NoLabels, ProviderSpecific |-> <<>>]

AdjustPool == {Adj1, Adj2, Adj3, Adj4, Adj5, Adj6, Adj7, NilEndpoint}

\* The Endpoint struct of a value and the heap that holds its contents: a nil
\* map and an empty ProviderSpecific are nil references.
RECURSIVE allocLoop(_, _, _, _)
allocLoop(values, i, structs, h) ==
    IF i > Len(values) THEN [endpoints |-> structs, heap |-> h]
    ELSE LET v == values[i]
         IN  IF v = NilEndpoint
             THEN allocLoop(values, i + 1, Append(structs, NilEndpoint), h)
             ELSE LET h1 == Append(h, v.Targets)
                      h2 == IF v.Labels = NoLabels THEN h1 ELSE Append(h1, v.Labels)
                      h3 == IF v.ProviderSpecific = <<>> THEN h2
                            ELSE Append(h2, v.ProviderSpecific)
                      ep == [DNSName |-> v.DNSName, RecordType |-> v.RecordType,
                             SetIdentifier |-> v.SetIdentifier, RecordTTL |-> v.RecordTTL,
                             Targets |-> Len(h1),
                             Labels |-> IF v.Labels = NoLabels THEN NilRef ELSE Len(h2),
                             ProviderSpecific |-> IF v.ProviderSpecific = <<>> THEN NilRef
                                                  ELSE Len(h3)]
                  IN  allocLoop(values, i + 1, Append(structs, ep), h3)

Alloc(values) == allocLoop(values, 1, <<>>, <<>>)

\* The value an endpoint has in a heap.
ValueOf(h, ep) ==
    [DNSName |-> ep.DNSName, RecordType |-> ep.RecordType,
     SetIdentifier |-> ep.SetIdentifier, RecordTTL |-> ep.RecordTTL,
     Targets |-> SliceAt(h, ep.Targets),
     Labels |-> MapAt(h, ep.Labels),
     ProviderSpecific |-> SliceAt(h, ep.ProviderSpecific)]

NotReturned == [endpoints |-> <<>>, err |-> "none", heap |-> <<>>]

InitAdjust ==
    /\ \E config \in Configs :
          LET d == CreateDesecClient(config)
          IN  /\ dryRun = d.dryRun
              /\ defaultTTL = d.defaultTTL
              /\ domainFilters = d.domainFilters
    /\ pc = "ready"
    /\ ApplyIdle
    /\ ProcIdle
    /\ \/ /\ args = [nil |-> TRUE, endpoints |-> <<>>]
          /\ heap = <<>>
       \/ \E values \in ListsUpTo(AdjustPool, MaxEndpoints) :
             /\ args = [nil |-> FALSE, endpoints |-> Alloc(values).endpoints]
             /\ heap = Alloc(values).heap
    /\ ret = NotReturned

\* ret.heap keeps the heap as it is when AdjustEndpoints returns.
CallAdjustEndpoints ==
    /\ pc = "ready"
    /\ pc' = "returned"
    /\ ret' = AdjustEndpoints(args, domainFilters, defaultTTL, heap)
    /\ heap' = ret'.heap
    /\ UNCHANGED <<clientVars, procVars, applyVars, args>>

\* What the caller writes.
Written == <<"b", "b">>

\* The endpoints of the caller's list or of the returned list.
Side(side) == IF side = "input" THEN args.endpoints ELSE ret.endpoints

Wrote(side) == IF side = "input" THEN "wroteInput" ELSE "wroteOutput"

\* The caller assigns ep.Targets[0].
WriteTarget(side, i) ==
    /\ pc = "returned"
    /\ i \in 1..Len(Side(side))
    /\ Side(side)[i] # NilEndpoint
    /\ Len(SliceAt(heap, Side(side)[i].Targets)) > 0
    /\ heap' = [heap EXCEPT ![Side(side)[i].Targets][1] = Written]
    /\ pc' = Wrote(side)
    /\ UNCHANGED <<clientVars, procVars, applyVars, args, ret>>

\* The caller assigns ep.Labels["owner"].
WriteLabel(side, i) ==
    /\ pc = "returned"
    /\ i \in 1..Len(Side(side))
    /\ Side(side)[i] # NilEndpoint
    /\ Side(side)[i].Labels # NilRef
    /\ heap' = [heap EXCEPT ![Side(side)[i].Labels].owner = Written]
    /\ pc' = Wrote(side)
    /\ UNCHANGED <<clientVars, procVars, applyVars, args, ret>>

\* The caller assigns ep.ProviderSpecific[0].Value.
WriteProviderSpecific(side, i) ==
    /\ pc = "returned"
    /\ i \in 1..Len(Side(side))
    /\ Side(side)[i] # NilEndpoint
    /\ Len(SliceAt(heap, Side(side)[i].ProviderSpecific)) > 0
    /\ heap' = [heap EXCEPT ![Side(side)[i].ProviderSpecific][1].Value = Written]
    /\ pc' = Wrote(side)
    /\ UNCHANGED <<clientVars, procVars, applyVars, args, ret>>

\* AdjustEndpoints is called with the list it has returned: args becomes
\* that list and ret the result of the second call.
CallAdjustEndpointsAgain ==
    /\ pc = "returned"
    /\ pc' = "adjustedAgain"
    /\ args' = [nil |-> FALSE, endpoints |-> ret.endpoints]
    /\ ret' = AdjustEndpoints(args', domainFilters, defaultTTL, heap)
    /\ heap' = ret'.heap
    /\ UNCHANGED <<clientVars, procVars, applyVars>>

Sides == {"input", "output"}

NextAdjust ==
    \/ CallAdjustEndpoints
    \/ CallAdjustEndpointsAgain
    \/ \E side \in Sides, i \in 1..MaxEndpoints : WriteTarget(side, i)
    \/ \E side \in Sides, i \in 1..MaxEndpoints : WriteLabel(side, i)
    \/ \E side \in Sides, i \in 1..MaxEndpoints : WriteProviderSpecific(side, i)

SpecAdjust == InitAdjust /\ [][NextAdjust]_vars

\* The indexes of the inputs that are not nil and whose name has a
\* qualifying filter.
Kept ==
    { i \in 1..Len(args.endpoints) :
        /\ args.endpoints[i] # NilEndpoint
        /\ QualifyingFilters(args.endpoints[i].DNSName, domainFilters) # {} }

\* The position in the result of the kept input i.
PositionOf(i) == Cardinality({ j \in Kept : j <= i })

\* C11: AdjustEndpoints never fails and returns one endpoint per input that
\* is not nil and whose name matches a configured zone, in input order, each
\* with the name, type, identifier, labels and provider-specific properties
\* of its input; the nil list gives the empty list.
C11_AdjustKeepsMatched ==
    pc = "returned" =>
        /\ ret.err = "nil"
        /\ Len(ret.endpoints) = Cardinality(Kept)
        /\ \A i \in Kept :
              LET in == ValueOf(heap, args.endpoints[i])
                  out == ValueOf(heap, ret.endpoints[PositionOf(i)])
              IN  /\ out.DNSName = in.DNSName
                  /\ out.RecordType = in.RecordType
                  /\ out.SetIdentifier = in.SetIdentifier
                  /\ out.Labels = in.Labels
                  /\ out.ProviderSpecific = in.ProviderSpecific
        /\ args.nil => ret.endpoints = <<>>

\* Of a nil pointer, an unmatched name and a matched CNAME with an
\* identifier, the CNAME alone has come back.
C11_Witness ==
    /\ pc = "returned"
    /\ args.endpoints = Alloc(<<NilEndpoint, Adj4, Adj2>>).endpoints
    /\ Len(ret.endpoints) = 1
    /\ ret.endpoints[1].DNSName = Adj2.DNSName
    /\ ret.endpoints[1].SetIdentifier = <<"a">>
    /\ SliceAt(heap, ret.endpoints[1].ProviderSpecific) = Adj2.ProviderSpecific

\* C12 (as claimed): no returned endpoint shares mutable state with an
\* input: a write through an input's targets, labels or provider-specific
\* properties leaves every returned endpoint as it was returned, and a write
\* through a returned endpoint leaves every input as it was.
C12_NoSharedState ==
    /\ pc = "wroteInput" =>
          \A k \in 1..Len(ret.endpoints) :
              ValueOf(heap, ret.endpoints[k]) = ValueOf(ret.heap, ret.endpoints[k])
    /\ pc = "wroteOutput" =>
          \A i \in 1..Len(args.endpoints) :
              args.endpoints[i] # NilEndpoint =>
                  ValueOf(heap, args.endpoints[i]) = ValueOf(ret.heap, args.endpoints[i])

\* The fields the comparison of a returned endpoint with its input reads.
Compared(v) ==
    [DNSName |-> v.DNSName, RecordType |-> v.RecordType,
     Targets |-> v.Targets, RecordTTL |-> v.RecordTTL]

\* An endpoint AdjustEndpoints has nothing to adjust in.
Adjusted(v) ==
    /\ v.RecordTTL >= minimumTTL
    /\ v.RecordType = "CNAME" => \A t \in 1..Len(v.Targets) : EndsWithDot(v.Targets[t])

----------------------------------------------------------------------------
(* convertRRSetToEndpoint *)

\* Faulty variant of composeName: the name is left without its final dot.
composeNameNoDot(subName, domain) ==
    IF subName = Empty THEN domain ELSE subName \o Dot \o domain

\* dnsName of convertRRSetToEndpoint.
composeName(subName, domain) ==
    LET dnsName == IF subName = Empty THEN domain ELSE subName \o Dot \o domain
    IN  TrimSuffix(dnsName, Dot) \o Dot

\* Faulty variant of convertRRSetToEndpoint: an empty endpoint is returned
\* for the nil RRSet.
convertRRSetToEndpointNoNil(rrset, domain) ==
    IF rrset = NilRRSet
    THEN [DNSName |-> Empty, RecordType |-> "", Targets |-> <<>>, RecordTTL |-> 0]
    ELSE [DNSName |-> composeName(rrset.SubName, domain),
          RecordType |-> rrset.Type,
          Targets |-> [i \in 1..Len(rrset.Records) |-> rrset.Records[i]],
          RecordTTL |-> rrset.TTL]

convertRRSetToEndpoint(rrset, domain) ==
    IF rrset = NilRRSet THEN NilEndpoint
    ELSE [DNSName |-> composeName(rrset.SubName, domain),
          RecordType |-> rrset.Type,
          Targets |-> [i \in 1..Len(rrset.Records) |-> rrset.Records[i]],
          RecordTTL |-> rrset.TTL]

----------------------------------------------------------------------------
(* Specification SpecCodec: an RRSet of a zone is read with                *)
(* convertRRSetToEndpoint; the subname of the endpoint is then extracted   *)
(* for the zone, or the endpoint is converted back for the zone.           *)

MaxSubLen == 3

MaxZoneLen == 3

\* Type, records and TTL of the RRSets read: a TTL below the minimum, a CNAME
\* with one record lacking the final dot, no records, and a CNAME that is
\* normalized.
RRSetBodies ==
    { [Type |-> "A", Records |-> << <<"a">> >>, TTL |-> 300],
      [Type |-> "CNAME", Records |-> << <<"a">>, <<"b", ".">> >>, TTL |-> 3600],
      [Type |-> "TXT", Records |-> <<>>, TTL |-> 0],
      [Type |-> "CNAME", Records |-> << <<"a", ".">> >>, TTL |-> 7200] }

RRSets ==
    { [SubName |-> s, Type |-> b.Type, Records |-> b.Records, TTL |-> b.TTL] :
        s \in StringsUpTo(MaxSubLen), b \in RRSetBodies }
    \cup {NilRRSet}

InitCodec ==
    /\ dryRun = FALSE
    /\ defaultTTL = minimumTTL
    /\ domainFilters = << <<"a">> >>
    /\ pc = "ready"
    /\ ApplyIdle
    /\ ProcIdle
    /\ heap = <<>>
    /\ args \in [rrset : RRSets, domain : StringsUpTo(MaxZoneLen)]
    /\ ret = [ep |-> NilEndpoint, subname |-> Empty, rrset |-> NilRRSet]

CallConvertRRSetToEndpoint ==
    /\ pc = "ready"
    /\ pc' = "read"
    /\ ret' = [ret EXCEPT !.ep = convertRRSetToEndpoint(args.rrset, args.domain)]
    /\ UNCHANGED <<clientVars, procVars, heap, applyVars, args>>

\* extractSubname is given the name of the endpoint read.
CallExtractSubname ==
    /\ pc = "read"
    /\ ret.ep # NilEndpoint
    /\ pc' = "extracted"
    /\ ret' = [ret EXCEPT !.subname = extractSubname(ret.ep.DNSName, args.domain)]
    /\ UNCHANGED <<clientVars, procVars, heap, applyVars, args>>

\* The endpoint read is converted for the zone it was read from.
CallConvertBack ==
    /\ pc = "read"
    /\ pc' = "written"
    /\ ret' = [ret EXCEPT !.rrset = convertEndpointToRRSet(ret.ep, args.domain, defaultTTL)]
    /\ UNCHANGED <<clientVars, procVars, heap, applyVars, args>>

NextCodec ==
    \/ CallConvertRRSetToEndpoint
    \/ CallExtractSubname
    \/ CallConvertBack

SpecCodec == InitCodec /\ [][NextCodec]_vars

\* A subname as a zone holds it: no dot at either end.
PlainSubname(s) == s = Empty \/ (s[1] # "." /\ s[Len(s)] # ".")

\* C14: for every zone and every subname without a leading or trailing dot,
\* the empty subname included, extractSubname gives back the subname from the
\* name convertRRSetToEndpoint has composed of subname and zone.
C14_NameRoundTrip ==
    (pc = "extracted" /\ PlainSubname(args.rrset.SubName)) =>
        ret.subname = args.rrset.SubName

\* A dotted subname of a zone written with a trailing dot has come back.
C14_Witness ==
    /\ pc = "extracted"
    /\ args.rrset.SubName = <<"a", ".", "b">>
    /\ args.domain = <<"b", ".">>
    /\ ret.ep.DNSName = <<"a", ".", "b", ".", "b", ".">>
    /\ ret.subname = <<"a", ".", "b">>

\* A name with a dot appended unless it ends with one.
WithDot(name) == IF EndsWithDot(name) THEN name ELSE name \o Dot

Read == pc \in {"read", "extracted", "written"} /\ args.rrset # NilRRSet

\* C15: the endpoint's name is the zone for the empty subname and the
\* subname, a dot and the zone otherwise, with a dot appended when it lacks
\* one, so it always ends with a dot; type, TTL and records are those of the
\* RRSet, unchanged and in order.
C15_ReadVerbatim ==
    Read =>
        /\ ret.ep.DNSName =
              WithDot(IF args.rrset.SubName = Empty THEN args.domain
                      ELSE args.rrset.SubName \o <<".">> \o args.domain)
        /\ EndsWithDot(ret.ep.DNSName)
        /\ ret.ep.RecordType = args.rrset.Type
        /\ ret.ep.RecordTTL = args.rrset.TTL
        /\ ret.ep.Targets = args.rrset.Records

\* A CNAME record without a final dot, and a TTL of 300, have been read as
\* they are, under a zone given without and with a trailing dot.
C15_Witness ==
    /\ pc = "read"
    /\ args.rrset # NilRRSet
    /\ args.rrset.SubName = <<"b">>
    /\ \/ args.domain = <<"a">> /\ args.rrset.TTL = 300 /\ ret.ep.RecordTTL = 300
       \/ /\ args.domain = <<"a", ".">>
          /\ args.rrset.Type = "CNAME"
          /\ ret.ep.Targets = << <<"a">>, <<"b", ".">> >>
    /\ ret.ep.DNSName = <<"b", ".", "a", ".">>

\* C18: both converters return nil for nil, an RRSet without records is read
\* as an endpoint without targets, and an endpoint without targets is
\* converted to an RRSet without records.
C18_ConvertersTotal ==
    /\ pc \in {"read", "extracted", "written"} =>
          /\ args.rrset = NilRRSet <=> ret.ep = NilEndpoint
          /\ (args.rrset # NilRRSet /\ args.rrset.Records = <<>>) => ret.ep.Targets = <<>>
    /\ pc = "written" =>
          /\ ret.ep = NilEndpoint <=> ret.rrset = NilRRSet
          /\ (ret.ep # NilEndpoint /\ ret.ep.Targets = <<>>) => ret.rrset.Records = <<>>

\* The nil RRSet has been read as the nil endpoint and that converted to the
\* nil RRSet.
C18_Witness ==
    /\ pc = "written"
    /\ args.rrset = NilRRSet
    /\ ret.ep = NilEndpoint
    /\ ret.rrset = NilRRSet

----------------------------------------------------------------------------
(* ApplyChanges: the calls of a run without failure *)

\* The calls of a phase.
CallsOf(phase) == { i \in 1..Len(calls) : calls[i].op = BulkOp(phase) }

\* The zones findMatchingDomain gives for the names of a list.
ZonesOf(endpoints) == { GroupOf(endpoints[i]) : i \in 1..Len(endpoints) } \ {Empty}

\* C16 (as claimed): when ApplyChanges has returned nil in real mode, each
\* phase has made exactly one call per zone with a matched endpoint in the
\* phase's list, with one RRSet per matched endpoint of the zone in input
\* order, and no call for any other zone; an empty list has made no call.
C16_OneCallPerZone ==
    (pc = "done" /\ ~dryRun /\ err = "nil") =>
        \A phase \in Phases :
            LET endpoints == PhaseList(changes, phase)
            IN  /\ \A zone \in ZonesOf(endpoints) :
                      Cardinality({ i \in CallsOf(phase) : calls[i].zone = zone }) = 1
                /\ \A i \in CallsOf(phase) :
                      /\ calls[i].zone \in ZonesOf(endpoints)
                      /\ calls[i].batch =
                            Batch(Select(endpoints, calls[i].zone), calls[i].zone, defaultTTL)
                /\ endpoints = <<>> => CallsOf(phase) = {}

----------------------------------------------------------------------------
(* Specification SpecHandler: applyChangesHandler, the handler of          *)
(* POST /records, serves one request.  args is the request, ret the status *)
(* written to the response.                                                *)

StatusNoContent == 204

StatusBadRequest == 400

StatusInternalServerError == 500

\* No header has been written.
NoStatus == 0

InitHandler ==
    /\ \E config \in Configs :
          LET d == CreateDesecClient(config)
          IN  /\ dryRun = d.dryRun
              /\ defaultTTL = d.defaultTTL
              /\ domainFilters = d.domainFilters
    /\ pc = "ready"
    /\ ApplyIdle
    /\ ProcIdle
    /\ heap = <<>>
    /\ args \in [decodable : BOOLEAN]
    /\ ret = NoStatus

\* Decode fails: the handler writes 400 and returns.
applyChangesHandlerBadRequest ==
    /\ pc = "ready"
    /\ ~args.decodable
    /\ pc' = "responded"
    /\ ret' = StatusBadRequest
    /\ UNCHANGED <<clientVars, procVars, heap, applyVars, args>>

\* Decode gives a change set and ApplyChanges is entered with it.
applyChangesHandlerDecoded(ch) ==
    /\ args.decodable
    /\ ApplyChanges(ch)

\* Faulty variant of applyChangesHandlerRespond: the error is only logged.
applyChangesHandlerRespondNoContent ==
    /\ pc = "done"
    /\ pc' = "responded"
    /\ ret' = StatusNoContent
    /\ UNCHANGED <<clientVars, procVars, heap, applyVars, args>>

\* ApplyChanges has returned: 500 for an error, 204 otherwise.
applyChangesHandlerRespond ==
    /\ pc = "done"
    /\ pc' = "responded"
    /\ ret' = IF err # "nil" THEN StatusInternalServerError ELSE StatusNoContent
    /\ UNCHANGED <<clientVars, procVars, heap, applyVars, args>>

NextHandler ==
    \/ applyChangesHandlerBadRequest
    \/ pc = "ready" /\ \E ch \in ChangeSets : applyChangesHandlerDecoded(ch)
    \/ \E domain \in todo : DryRunZone(domain)
    \/ \E domain \in todo : BulkSucceeds(domain)
    \/ \E domain \in todo, e \in Errors : BulkFails(domain, e)
    \/ EndPhase
    \/ applyChangesHandlerRespond

SpecHandler == InitHandler /\ [][NextHandler]_vars

\* ApplyChanges has not been entered.
NotInvoked == changes = NoChanges /\ groups = <<>> /\ calls = <<>> /\ err = "none"

\* C17: the answer is 400, with ApplyChanges not invoked, when the body
\* cannot be decoded; 500 when ApplyChanges has returned an error; 204 when
\* it has returned nil; a dry-run client answers 204 to every decodable body.
\* No status is written before that.
C17_HandlerStatus ==
    /\ pc # "responded" => ret = NoStatus
    /\ pc = "responded" =>
          /\ ~args.decodable => (ret = 400 /\ NotInvoked)
          /\ (args.decodable /\ err \in Errors) => ret = 500
          /\ (args.decodable /\ err = "nil") => ret = 204
          /\ (args.decodable /\ dryRun) => ret = 204
          /\ args.decodable => ~NotInvoked

\* A request whose second bulk call failed has been answered with 500.
C17_Witness ==
    /\ pc = "responded"
    /\ ret = 500
    /\ Len(calls) = 2
    /\ err = "err1"

----------------------------------------------------------------------------
(* The REST variant (process.go): processChange handles one change with    *)
(* requests to the provider's HTTP API.                                    *)

\* strings.Split(s, ".")
RECURSIVE splitLoop(_, _, _, _)
splitLoop(s, i, part, parts) ==
    IF i > Len(s) THEN Append(parts, part)
    ELSE IF s[i] = "." THEN splitLoop(s, i + 1, Empty, Append(parts, part))
    ELSE splitLoop(s, i + 1, Append(part, s[i]), parts)

Split(s) == splitLoop(s, 1, Empty, <<>>)

\* strings.Join(parts, ".")
RECURSIVE Join(_)
Join(parts) ==
    IF parts = <<>> THEN Empty
    ELSE IF Len(parts) = 1 THEN parts[1]
    ELSE parts[1] \o Dot \o Join(Tail(parts))

getSubnameAndDomain(fullName) ==
    LET trimmed == TrimSuffix(fullName, Dot)
        parts == Split(trimmed)
        n == Len(parts)
    IN  IF n < 2 THEN [subname |-> Empty, domain |-> trimmed]
        ELSE [subname |-> Join(SubSeq(parts, 1, n - 2)),
              domain |-> parts[n - 1] \o Dot \o parts[n]]

\* strings.ToUpper on the record types of the model.
ToUpper(type) ==
    CASE type = "a" -> "A"
      [] type = "cname" -> "CNAME"
      [] OTHER -> type

\* ErrorResponse{...}: the message is the sequence of its pieces.
ErrorResponse(message) == [Error |-> message]

SuccessResponse == [Success |-> TRUE]

\* A response body that is the JSON null, and one that is not JSON.
NullBody == [null |-> TRUE]

Undecodable == [undecodable |-> TRUE]

Request(method, url, body) == [method |-> method, url |-> url, body |-> body]

\* The error of client.Do.
DoError == ErrorResponse(<<"client.Do">>)

DecodeError == ErrorResponse(<<"Decode">>)

APIError(status) == ErrorResponse(<<"API error: ", ToString(status)>>)

\* The answer to the request that writes, after the first request.
afterWrite(requests, r) ==
    IF r.write.err THEN [response |-> DoError, requests |-> requests]
    ELSE IF r.write.status >= 400
         THEN [response |-> APIError(r.write.status), requests |-> requests]
         ELSE [response |-> SuccessResponse, requests |-> requests]

Range(seq) == { seq[i] : i \in 1..Len(seq) }

\* r.get and r.write are what the provider answers to the first and to the
\* second request; r.order is the order in which the range over the map of
\* unique records yields them.
createOrUpdateRRSet(url, ttl, targets, r) ==
    LET get == Request("GET", url, NullBody)
    IN  IF r.get.err THEN [response |-> DoError, requests |-> <<get>>]
        ELSE IF r.get.status = 200 /\ r.get.body = Undecodable
             THEN [response |-> DecodeError, requests |-> <<get>>]
             ELSE LET existing == IF r.get.status = 200 THEN r.get.body ELSE NullBody
                      data == [Records |-> r.order, TTL |-> ttl]
                      method == IF existing # NullBody THEN "PUT" ELSE "POST"
                  IN  afterWrite(<<get, Request(method, url, data)>>, r)

\* The records the map "unique" of createOrUpdateRRSet holds.
Unique(targets, r) ==
    Range(targets) \cup
        (IF ~r.get.err /\ r.get.status = 200 /\ r.get.body \notin {NullBody, Undecodable}
         THEN Range(r.get.body.Records) ELSE {})

RECURSIVE remainingLoop(_, _)
remainingLoop(records, targets) ==
    IF records = <<>> THEN <<>>
    ELSE IF Head(records) \in Range(targets)
         THEN remainingLoop(Tail(records), targets)
         ELSE <<Head(records)>> \o remainingLoop(Tail(records), targets)

deleteRRSet(url, targets, r) ==
    LET get == Request("GET", url, NullBody)
    IN  IF r.get.err THEN [response |-> DoError, requests |-> <<get>>]
        ELSE IF r.get.status = 404 THEN [response |-> SuccessResponse, requests |-> <<get>>]
        ELSE IF r.get.status # 200
             THEN [response |-> APIError(r.get.status), requests |-> <<get>>]
        ELSE IF r.get.body = Undecodable
             THEN [response |-> DecodeError, requests |-> <<get>>]
        ELSE LET existing == IF r.get.body = NullBody THEN [Records |-> <<>>, TTL |-> 0]
                             ELSE r.get.body
                 remaining == remainingLoop(existing.Records, targets)
                 write == IF Len(remaining) > 0
                          THEN Request("PUT", url, [Records |-> remaining, TTL |-> existing.TTL])
                          ELSE Request("DELETE", url, NullBody)
             IN  afterWrite(<<get, write>>, r)

\* Faulty variant of processChange: the change is not validated.
processChangeNoValidation(change, default, r) ==
    LET name == getSubnameAndDomain(change.Record.Name)
        url == [domain |-> name.domain, subname |-> name.subname,
                rrType |-> ToUpper(change.Record.Type)]
        ttl == IF change.Record.TTL = 0 THEN default ELSE change.Record.TTL
    IN  CASE change.Action \in {"CREATE", "UPDATE"} ->
                 createOrUpdateRRSet(url, ttl, change.Record.Targets, r)
          [] change.Action = "DELETE" -> deleteRRSet(url, change.Record.Targets, r)
          [] OTHER -> [response |-> ErrorResponse(<<"Unsupported action: ", change.Action>>),
                       requests |-> <<>>]

\* The response of processChange and the requests it has sent.
processChange(change, default, r) ==
    IF change.Action = "" \/ change.Record.Name = Empty
    THEN [response |-> ErrorResponse(<<"Invalid change request">>), requests |-> <<>>]
    ELSE LET name == getSubnameAndDomain(change.Record.Name)
             url == [domain |-> name.domain, subname |-> name.subname,
                     rrType |-> ToUpper(change.Record.Type)]
             ttl == IF change.Record.TTL = 0 THEN default ELSE change.Record.TTL
         IN  CASE change.Action \in {"CREATE", "UPDATE"} ->
                      createOrUpdateRRSet(url, ttl, change.Record.Targets, r)
               [] change.Action = "DELETE" -> deleteRRSet(url, change.Record.Targets, r)
               [] OTHER -> [response |-> ErrorResponse(<<"Unsupported action: ", change.Action>>),
                            requests |-> <<>>]

----------------------------------------------------------------------------
(* Specification SpecProcess: processChange handles a change; calls is the *)
(* list of requests the provider's API has received.                       *)

\* Names of records: none, a bare label, a two-label name, deeper names.
RecordNames ==
    { Empty, <<"a">>, <<"b", ".", "a">>, <<"a", ".", "b", ".", "a">>,
      <<"a", ".", "b", ".", "a", ".">> }

Actions == {"", "CREATE", "UPDATE", "DELETE", "PATCH", "create"}

RecordTargets == { <<"a">>, <<"b">> }

Changes ==
    [Action : Actions,
     Record : [Name : RecordNames, Type : {"a", "CNAME"}, TTL : {0, 60},
               Targets : ListsUpTo(RecordTargets, MaxTargets)]]

\* What the API answers to the GET of an RRSet.
GetResponses ==
    { [err |-> TRUE, status |-> 0, body |-> NullBody] }
    \cup { [err |-> FALSE, status |-> 200, body |-> b] :
             b \in { NullBody, Undecodable,
                     [Records |-> << <<"a">> >>, TTL |-> 3600],
                     [Records |-> << <<"b">>, <<"a", "b">> >>, TTL |-> 7200] } }
    \cup { [err |-> FALSE, status |-> st, body |-> NullBody] : st \in {404, 500} }

\* What the API answers to the request that writes.
WriteResponses ==
    { [err |-> TRUE, status |-> 0] }
    \cup { [err |-> FALSE, status |-> st] : st \in {200, 204, 400, 500} }

\* The orders in which a range over a map with these keys can yield them.
Orders(keys) ==
    { order \in ListsOfLen(keys, Cardinality(keys)) : Range(order) = keys }

InitProcess ==
    /\ dryRun = FALSE
    /\ defaultTTL = 300
    /\ domainFilters = <<>>
    /\ pc = "ready"
    /\ ApplyIdle
    /\ ProcIdle
    /\ heap = <<>>
    /\ args \in Changes
    /\ ret = NullBody

CallProcessChange ==
    /\ pc = "ready"
    /\ \E get \in GetResponses, write \in WriteResponses :
          \E order \in Orders(Unique(args.Record.Targets, [get |-> get])) :
              LET out == processChange(args, defaultTTL,
                                       [get |-> get, write |-> write, order |-> order])
              IN  /\ ret' = out.response
                  /\ calls' = out.requests
    /\ pc' = "returned"
    /\ UNCHANGED <<clientVars, procVars, heap, changes, groups, todo, err, args>>

NextProcess == CallProcessChange

SpecProcess == InitProcess /\ [][NextProcess]_vars

\* C19: processChange returns "Invalid change request" and sends no request
\* when the action or the record name is empty; for a change with both, it
\* returns the unsupported-action error and sends no request when the action
\* is none of CREATE, UPDATE and DELETE.
C19_InvalidChange ==
    pc = "returned" =>
        /\ (args.Action = "" \/ args.Record.Name = <<>>) =>
              /\ ret = [Error |-> <<"Invalid change request">>]
              /\ calls = <<>>
        /\ (args.Action \notin {"", "CREATE", "UPDATE", "DELETE"} /\ args.Record.Name # <<>>) =>
              /\ ret = [Error |-> <<"Unsupported action: ", args.Action>>]
              /\ calls = <<>>
        /\ (args.Action \in {"CREATE", "UPDATE", "DELETE"} /\ args.Record.Name # <<>>) =>
              calls # <<>>

\* A change without action and a change with the action in lower case have
\* been refused without a request.
C19_Witness ==
    /\ pc = "returned"
    /\ calls = <<>>
    /\ \/ args.Action = "" /\ args.Record.Name = <<"b", ".", "a">>
       \/ args.Action = "create" /\ ret = [Error |-> <<"Unsupported action: ", "create">>]

----------------------------------------------------------------------------
(* Order of the domain filters *)

\* The lists with the elements of a list in every order.
Reorderings(list) ==
    { [i \in 1..Len(list) |-> list[p[i]]] : p \in Permutations(1..Len(list)) }

\* C20: findMatchingDomain gives the same zone for the filter list in every
\* order, a list that holds a zone twice, or with and without a trailing
\* dot, included.
C20_FilterOrder ==
    pc = "returned" =>
        \A filters \in Reorderings(domainFilters) :
            findMatchingDomain(args, filters) = ret

\* A name under a zone and its sub-zone has been matched to the sub-zone
\* listed first; and a zone listed with and without a trailing dot has been
\* matched.
C20_Witness ==
    /\ pc = "returned"
    /\ \/ /\ domainFilters = << <<"b", ".", "a">>, <<"a">> >>
          /\ args = <<"a", ".", "b", ".", "a">>
          /\ ret = <<"b", ".", "a">>
       \/ /\ domainFilters = << <<"a", ".">>, <<"a">> >>
          /\ args = <<"b", ".", "a">>
          /\ ret = <<"a">>

----------------------------------------------------------------------------
(* GetEndpoints *)

\* The endpoints of the RRSets Records.GetAll has returned for a zone.
GetEndpoints(domain, rrsets) ==
    [i \in 1..Len(rrsets) |-> convertRRSetToEndpoint(rrsets[i], domain)]

----------------------------------------------------------------------------
(* Specification SpecRead: the RRSets of a configured zone are read with   *)
(* GetEndpoints, and the endpoints read are given back to ApplyChanges as  *)
(* updates or as deletes.                                                  *)

MaxRRSets == 2

\* Subnames of the RRSets a zone holds.
ZoneSubnames == { Empty, <<"a">>, <<"b">>, <<"a", ".", "b">> }

ZoneRRSets ==
    { [SubName |-> s, Type |-> b.Type, Records |-> b.Records, TTL |-> b.TTL] :
        s \in ZoneSubnames,
        b \in { [Type |-> "A", Records |-> << <<"a">> >>, TTL |-> 3600],
                [Type |-> "CNAME", Records |-> << <<"b", ".">> >>, TTL |-> 7200] } }

NotFetched == [endpoints |-> <<>>, err |-> "none"]

InitRead ==
    /\ \E config \in Configs :
          LET d == CreateDesecClient(config)
          IN  /\ dryRun = d.dryRun
              /\ defaultTTL = d.defaultTTL
              /\ domainFilters = d.domainFilters
    /\ pc = "ready"
    /\ ApplyIdle
    /\ ProcIdle
    /\ heap = <<>>
    /\ \E k \in 1..Len(domainFilters), rrsets \in ListsUpTo(ZoneRRSets, MaxRRSets) :
          args = [domain |-> domainFilters[k], rrsets |-> rrsets]
    /\ ret = NotFetched

\* Records.GetAll returns an error and GetEndpoints returns it.
GetEndpointsFails(e) ==
    /\ pc = "ready"
    /\ ret = NotFetched
    /\ pc' = "failed"
    /\ ret' = [endpoints |-> <<>>, err |-> e]
    /\ UNCHANGED <<clientVars, procVars, heap, applyVars, args>>

GetEndpointsSucceeds ==
    /\ pc = "ready"
    /\ ret = NotFetched
    /\ ret' = [endpoints |-> GetEndpoints(args.domain, args.rrsets), err |-> "nil"]
    /\ UNCHANGED <<clientVars, procVars, heap, applyVars, args, pc>>

\* The change sets that update, or delete, the endpoints read.
ReadBack(endpoints) ==
    { [NoChanges EXCEPT !.UpdateNew = endpoints, !.UpdateOld = endpoints],
      [NoChanges EXCEPT !.Delete = endpoints] }

NextRead ==
    \/ \E e \in Errors : GetEndpointsFails(e)
    \/ GetEndpointsSucceeds
    \/ ret.err = "nil" /\ \E ch \in ReadBack(ret.endpoints) : ApplyChanges(ch)
    \/ \E domain \in todo : DryRunZone(domain)
    \/ \E domain \in todo : BulkSucceeds(domain)
    \/ \E domain \in todo, e \in Errors : BulkFails(domain, e)
    \/ EndPhase

SpecRead == InitRead /\ [][NextRead]_vars

\* A call for the zone holds an RRSet of the type with the subname.
SentTo(zone, subName, type) ==
    \E i \in 1..Len(calls) :
        /\ calls[i].zone = zone
        /\ \E j \in 1..Len(calls[i].batch) :
              /\ calls[i].batch[j].SubName = subName
              /\ calls[i].batch[j].Type = type

ReadBackDone == pc = "done" /\ ~dryRun /\ err = "nil"

\* C21 (as claimed): every RRSet read from a configured zone is, when its
\* endpoint is updated or deleted, sent to that zone (trailing dot aside)
\* with its subname.
C21_ReadWriteRoundTrip ==
    ReadBackDone =>
        \A k \in 1..Len(args.rrsets) :
            SentTo(TrimSuffix(args.domain, Dot), args.rrsets[k].SubName, args.rrsets[k].Type)

\* C21 (amended): the endpoint of an RRSet read from a configured zone is
\* sent to the longest configured zone its name is at or under.  That is the
\* zone it was read from, with the subname it was read with, unless a longer
\* configured zone (a sub-zone) qualifies for the name; then the RRSet goes
\* to the longest such zone, with the name's part in front of that zone as
\* subname, and nothing is sent to the zone it was read from for it.
C21_RoutedToLongestZone ==
    ReadBackDone =>
        \A k \in 1..Len(args.rrsets) :
            LET s == args.rrsets[k].SubName
                type == args.rrsets[k].Type
                z == TrimSuffix(args.domain, Dot)
                name == IF s = Empty THEN z ELSE s \o <<".">> \o z
                Q == QualifyingFilters(name, domainFilters)
                longer == { q \in Q : Len(q) > Len(z) }
            IN  IF longer = {}
                THEN SentTo(z, s, type)
                ELSE \E q \in longer :
                        /\ \A p \in Q : Len(p) <= Len(q)
                        /\ SentTo(q, IF name = q THEN Empty
                                     ELSE SubSeq(name, 1, Len(name) - Len(q) - 1), type)
                        /\ ~SentTo(z, s, type)

\* The RRSet "b" read from zone "a" has been sent to the sub-zone "b.a" as
\* its apex, and the RRSet "a" read from "a" to zone "a".
C21_Witness ==
    /\ ReadBackDone
    /\ domainFilters = << <<"a">>, <<"b", ".", "a">> >>
    /\ args.domain = <<"a">>
    /\ Len(args.rrsets) = 2
    /\ args.rrsets[1].SubName = <<"b">>
    /\ args.rrsets[2].SubName = <<"a">>
    /\ SentTo(<<"b", ".", "a">>, Empty, args.rrsets[1].Type)
    /\ SentTo(<<"a">>, <<"a">>, args.rrsets[2].Type)

----------------------------------------------------------------------------
(* AdjustEndpoints and convertEndpointToRRSet *)

\* The endpoint convertEndpointToRRSet is given for an endpoint value.
AsEndpoint(v) ==
    [DNSName |-> v.DNSName, RecordType |-> v.RecordType,
     Targets |-> v.Targets, RecordTTL |-> v.RecordTTL]

ValuesOf(h, endpoints) == [k \in 1..Len(endpoints) |-> ValueOf(h, endpoints[k])]

\* C23: AdjustEndpoints applied to a list it has returned returns a list
\* with the same endpoints: same names, types, TTLs and targets, in order.
C23_AdjustIdempotent ==
    pc = "adjustedAgain" =>
        /\ ret.err = "nil"
        /\ ValuesOf(heap, ret.endpoints) = ValuesOf(heap, args.endpoints)

\* The second call was given a CNAME whose TTL and targets the first call
\* had changed, and has returned it as it was.
C23_Witness ==
    /\ pc = "adjustedAgain"
    /\ Len(args.endpoints) = 1
    /\ Len(ret.endpoints) = 1
    /\ args.endpoints[1].DNSName = Adj2.DNSName
    /\ ret.endpoints[1].RecordTTL = defaultTTL
    /\ SliceAt(heap, ret.endpoints[1].Targets) = << <<"a", ".">>, <<"b", ".">> >>
    /\ ret.endpoints[1].Targets # args.endpoints[1].Targets

----------------------------------------------------------------------------
(* ApplyChanges: the subname of an emitted RRSet *)

PhaseOf(op) ==
    CASE op = "BulkCreate" -> "create"
      [] op = "BulkUpdate" -> "update"
      [] op = "BulkDelete" -> "delete"

\* The endpoints ApplyChanges has routed to the zone of call i.
RoutedTo(i) ==
    mapEndpointsByHostname(PhaseList(changes, PhaseOf(calls[i].op)), domainFilters)[calls[i].zone]

\* C24 (as claimed): the RRSet emitted for an endpoint routed to zone z has
\* the empty subname exactly when the name without trailing dot is z, and
\* otherwise its subname, a dot and z make the name without trailing dot.
C24_SubnameInZone ==
    \A i \in 1..Len(calls) :
        \A j \in 1..Len(calls[i].batch) :
            LET name == TrimSuffix(RoutedTo(i)[j].DNSName, Dot)
                subName == calls[i].batch[j].SubName
                z == calls[i].zone
            IN  /\ subName = Empty <=> name = z
                /\ subName # Empty => subName \o <<".">> \o z = name

----------------------------------------------------------------------------
(* Specification SpecInputs: a list of endpoints is given to               *)
(* AdjustEndpoints, or to ApplyChanges as creates, updates or deletes.     *)
(* args.values keeps the values the endpoints have before the call.        *)

MaxInputs == 2

\* The values of a list of endpoints, nil pointers kept.
InputValues(h, endpoints) ==
    [i \in 1..Len(endpoints) |->
        IF endpoints[i] = NilEndpoint THEN NilEndpoint ELSE ValueOf(h, endpoints[i])]

InitInputs ==
    /\ \E config \in Configs :
          LET d == CreateDesecClient(config)
          IN  /\ dryRun = d.dryRun
              /\ defaultTTL = d.defaultTTL
              /\ domainFilters = d.domainFilters
    /\ pc = "ready"
    /\ ApplyIdle
    /\ ProcIdle
    /\ \/ /\ args = [nil |-> TRUE, endpoints |-> <<>>, values |-> <<>>]
          /\ heap = <<>>
       \/ \E values \in ListsUpTo(AdjustPool, MaxInputs) :
             /\ args = [nil |-> FALSE, endpoints |-> Alloc(values).endpoints,
                        values |-> values]
             /\ heap = Alloc(values).heap
    /\ ret = NotReturned

\* The change sets with the endpoints in one of the lists ApplyChanges reads.
InputChanges(values) ==
    { [NoChanges EXCEPT !.Create = values],
      [NoChanges EXCEPT !.UpdateNew = values],
      [NoChanges EXCEPT !.Delete = values] }

NextInputs ==
    \/ CallAdjustEndpoints
    \/ pc = "ready" /\ \E ch \in InputChanges(args.values) : ApplyChanges(ch)
    \/ \E domain \in todo : DryRunZone(domain)
    \/ \E domain \in todo : BulkSucceeds(domain)
    \/ \E domain \in todo, e \in Errors : BulkFails(domain, e)
    \/ EndPhase

SpecInputs == InitInputs /\ [][NextInputs]_vars

\* C25: after AdjustEndpoints, and during and after ApplyChanges, in dry-run
\* and in real mode, whether a bulk call has failed or not, every input
\* endpoint has the name, type, TTL and targets it had before the call.
C25_InputsUnchanged ==
    /\ pc = "returned" => InputValues(heap, args.endpoints) = args.values
    /\ pc \in Phases \cup {"done"} =>
          \A list \in {changes.Create, changes.UpdateNew, changes.Delete} :
              list = <<>> \/ list = args.values

\* A CNAME with TTL 0 and a target without final dot: it has been adjusted
\* to another endpoint, or sent with the default TTL in a call that failed,
\* and is as it was.
C25_Witness ==
    /\ args.values = <<Adj2>>
    /\ \/ /\ pc = "returned"
          /\ Len(ret.endpoints) = 1
          /\ ret.endpoints[1].RecordTTL = defaultTTL
          /\ ValueOf(heap, args.endpoints[1]).RecordTTL = 0
       \/ /\ pc = "done"
          /\ err \in Errors
          /\ Len(calls) = 1
          /\ calls[1].batch[1].TTL = defaultTTL
          /\ changes.UpdateNew[1].RecordTTL = 0
          /\ changes.UpdateNew[1].Targets[1] = <<"a">>

----------------------------------------------------------------------------
(* Specification SpecUpdate: ApplyChanges is given change sets whose        *)
(* UpdateOld list holds endpoints that are in no other list.                *)

MaxUpdates == 2

UpdateChangeSets ==
    [Create : { <<>>, <<Ep1>> },
     UpdateNew : ListsUpTo({Ep1, Ep2, Ep4, NilEndpoint}, MaxUpdates),
     UpdateOld : ListsUpTo({Ep3, Ep5}, MaxUpdates),
     Delete : { <<>>, <<Ep2>> }]

NextUpdate ==
    \/ pc = "ready" /\ \E ch \in UpdateChangeSets : ApplyChanges(ch)
    \/ \E domain \in todo : DryRunZone(domain)
    \/ \E domain \in todo : BulkSucceeds(domain)
    \/ \E domain \in todo, e \in Errors : BulkFails(domain, e)
    \/ EndPhase

SpecUpdate == Init /\ [][NextUpdate]_vars

\* The list of the change set a bulk operation is about.
ListOf(op) ==
    CASE op = "BulkCreate" -> changes.Create
      [] op = "BulkUpdate" -> changes.UpdateNew
      [] op = "BulkDelete" -> changes.Delete

\* C26: every call has the batch that the Create, UpdateNew or Delete list
\* of its operation gives for its zone, whatever UpdateOld holds, and no
\* call of any operation carries the RRSet of an endpoint of UpdateOld: an
\* update sends the new RRSets only and removes nothing of the old.
C26_UpdateOldIgnored ==
    pc \in Phases \cup {"done"} =>
        \A op \in { calls[i].op : i \in 1..Len(calls) } :
            \A byZone \in { mapEndpointsByHostname(ListOf(op), domainFilters) } :
                \A i \in 1..Len(calls) :
                    calls[i].op = op =>
                        /\ calls[i].zone \in DOMAIN byZone
                        /\ calls[i].batch =
                              Batch(byZone[calls[i].zone], calls[i].zone, defaultTTL)
                        /\ \A j \in 1..Len(calls[i].batch), k \in 1..Len(changes.UpdateOld) :
                              calls[i].batch[j] #
                                  convertEndpointToRRSet(changes.UpdateOld[k],
                                                         calls[i].zone, defaultTTL)

\* An update of "a.b.a" to "b.a" has made its one call, for the new name.
C26_Witness ==
    /\ pc = "done"
    /\ ~dryRun
    /\ err = "nil"
    /\ changes.UpdateOld = <<Ep5>>
    /\ changes.UpdateNew = <<Ep1>>
    /\ changes.Create = <<>>
    /\ changes.Delete = <<>>
    /\ Len(calls) = 1
    /\ calls[1].op = "BulkUpdate"
    /\ Len(calls[1].batch) = 1

----------------------------------------------------------------------------
(* Specification SpecRecords: recordsHandler, the handler of GET /records, *)
(* serves one request.  args[i] holds the RRSets of the i-th configured    *)
(* zone, calls the GetEndpoints calls made with their outcome, and ret the *)
(* endpoints collected so far and the response.                            *)

StatusOK == 200

\* RRSets of the zones read by the handler.
RecordsRRSets ==
    { [SubName |-> Empty, Type |-> "A", Records |-> << <<"a">> >>, TTL |-> 3600],
      [SubName |-> <<"a">>, Type |-> "CNAME", Records |-> << <<"b", ".">> >>, TTL |-> 7200],
      [SubName |-> <<"b">>, Type |-> "TXT", Records |-> << <<"a">>, <<"b">> >>, TTL |-> 3600] }

NoBody == [kind |-> "none", endpoints |-> <<>>, domain |-> Empty, err |-> "nil"]

InitRecords ==
    /\ \E config \in Configs :
          LET d == CreateDesecClient(config)
          IN  /\ dryRun = d.dryRun
              /\ defaultTTL = d.defaultTTL
              /\ \E n \in 0..Len(d.domainFilters) :
                    domainFilters = SubSeq(d.domainFilters, 1, n)
    /\ pc = "fetching"
    /\ ApplyIdle
    /\ ProcIdle
    /\ heap = <<>>
    /\ args \in [1..Len(domainFilters) -> ListsUpTo(RecordsRRSets, MaxRRSets)]
    /\ ret = [endpoints |-> <<>>, status |-> NoStatus, body |-> NoBody]

\* Faulty variant of appendEndpoints: the zone's endpoints are put in front.
prependEndpoints(endpoints, domainEndpoints) == domainEndpoints \o endpoints

\* endpoints = append(endpoints, domainEndpoints...)
appendEndpoints(endpoints, domainEndpoints) == endpoints \o domainEndpoints

\* One pass of the loop over the domain filters in which GetEndpoints
\* returns an error: the handler answers 500 with a message and returns.
recordsHandlerFetchFails(e) ==
    /\ pc = "fetching"
    /\ Len(calls) < Len(domainFilters)
    /\ LET domain == domainFilters[Len(calls) + 1]
       IN  /\ calls' = Append(calls, [zone |-> domain, err |-> e])
           /\ ret' = [ret EXCEPT !.status = StatusInternalServerError,
                                 !.body = [kind |-> "message", endpoints |-> <<>>,
                                           domain |-> domain, err |-> e]]
    /\ pc' = "responded"
    /\ UNCHANGED <<clientVars, procVars, heap, changes, groups, todo, err, args>>

\* One pass of the loop in which GetEndpoints succeeds.
recordsHandlerFetchSucceeds ==
    /\ pc = "fetching"
    /\ Len(calls) < Len(domainFilters)
    /\ LET domain == domainFilters[Len(calls) + 1]
           domainEndpoints == GetEndpoints(domain, args[Len(calls) + 1])
       IN  /\ calls' = Append(calls, [zone |-> domain, err |-> "nil"])
           /\ ret' = [ret EXCEPT !.endpoints = appendEndpoints(@, domainEndpoints)]
    /\ UNCHANGED <<clientVars, procVars, heap, changes, groups, todo, err, args, pc>>

\* The loop has ended: the endpoints are encoded and written; the status
\* of a response written without WriteHeader is 200.
recordsHandlerRespond ==
    /\ pc = "fetching"
    /\ Len(calls) = Len(domainFilters)
    /\ ret' = [ret EXCEPT !.status = StatusOK,
                          !.body = [NoBody EXCEPT !.kind = "endpoints",
                                                  !.endpoints = ret.endpoints]]
    /\ pc' = "responded"
    /\ UNCHANGED <<clientVars, procVars, heap, applyVars, args>>

NextRecords ==
    \/ \E e \in Errors : recordsHandlerFetchFails(e)
    \/ recordsHandlerFetchSucceeds
    \/ recordsHandlerRespond

SpecRecords == InitRecords /\ [][NextRecords]_vars

RECURSIVE AllEndpoints(_)
\* The endpoints of the first n configured zones, zone after zone.
AllEndpoints(n) ==
    IF n = 0 THEN <<>>
    ELSE AllEndpoints(n - 1) \o GetEndpoints(domainFilters[n], args[n])

\* C27: the zones are fetched one after the other in filter order; a failed
\* fetch is the last one made and is answered with 500 and none of the
\* endpoints collected before; when every fetch has succeeded the answer
\* holds the endpoints of all zones in filter order.
C27_RecordsInFilterOrder ==
    /\ Len(calls) <= Len(domainFilters)
    /\ \A i \in 1..Len(calls) :
          /\ calls[i].zone = domainFilters[i]
          /\ calls[i].err # "nil" =>
                /\ i = Len(calls)
                /\ pc = "responded"
                /\ ret.status = StatusInternalServerError
                /\ ret.body.kind = "message"
                /\ ret.body.endpoints = <<>>
    /\ (pc = "responded" /\ \A i \in 1..Len(calls) : calls[i].err = "nil") =>
          /\ Len(calls) = Len(domainFilters)
          /\ ret.status = StatusOK
          /\ ret.body.kind = "endpoints"
          /\ ret.body.endpoints = AllEndpoints(Len(domainFilters))

\* The first of two zones has given endpoints and the fetch of the second
\* has failed.
C27_Witness ==
    /\ pc = "responded"
    /\ Len(domainFilters) = 2
    /\ Len(calls) = 2
    /\ calls[1].err = "nil"
    /\ calls[2].err \in Errors
    /\ ret.endpoints # <<>>
    /\ ret.status = StatusInternalServerError

----------------------------------------------------------------------------
(* Specification SpecPool: handlePostRecords serves one request with its   *)
(* pool of workers.  Goroutine 0 is the handler, goroutines 1..workerCount *)
(* are the workers; pc and local are indexed by goroutine.  args is the    *)
(* request, with the RRSets the provider holds when it arrives, ret the    *)
(* response.  store is the provider's API: it answers a GET with the RRSet *)
(* it holds and applies the writes that succeed.                           *)

workerCount == 5

StatusMultiStatus == 207

MaxPoolChanges == 6

Handler == 0

Workers == 1..workerCount

Nil == [nil |-> TRUE]

\* Changes of a request: two for the same record with different targets, a
\* removal, a change without action and one with an unknown action.
PoolCreate ==
    [Action |-> "CREATE",
     Record |-> [Name |-> <<"a", ".", "b", ".", "a">>, Type |-> "a", TTL |-> 0,
                 Targets |-> << <<"a">> >>]]

PoolUpdate ==
    [Action |-> "UPDATE",
     Record |-> [Name |-> <<"a", ".", "b", ".", "a">>, Type |-> "a", TTL |-> 0,
                 Targets |-> << <<"b">> >>]]

PoolDelete ==
    [Action |-> "DELETE",
     Record |-> [Name |-> <<"a", ".", "b", ".", "a">>, Type |-> "a", TTL |-> 0,
                 Targets |-> << <<"a">> >>]]

PoolInvalid == [PoolCreate EXCEPT !.Action = ""]

PoolUnsupported == [PoolCreate EXCEPT !.Action = "PATCH"]

\* A request of n changes that processChange refuses.
PoolLong(n) ==
    [i \in 1..n |-> IF i % 2 = 0 THEN PoolInvalid ELSE PoolUnsupported]

\* Requests of one change, and of 0 to MaxPoolChanges refused changes.
PoolOneByOne ==
    { <<PoolCreate>>, <<PoolDelete>> } \cup { PoolLong(n) : n \in 0..MaxPoolChanges }

\* With them, requests of several changes for the same record.
PoolRequests ==
    PoolOneByOne
    \cup { <<PoolCreate, PoolUpdate>>, <<PoolUpdate, PoolDelete>>,
           <<PoolDelete, PoolInvalid, PoolCreate>> }

\* The URL of the RRSet the changes of the requests are about.
PoolURL == [domain |-> <<"b", ".", "a">>, subname |-> <<"a">>, rrType |-> "A"]

\* What the provider holds at first: no RRSet, or one with a record.
PoolStores ==
    { [u \in {PoolURL} |-> body] :
        body \in { NullBody, [Records |-> << <<"a", "b">> >>, TTL |-> 3600] } }

\* The response of processChange to a change for which it sends no request,
\* Nil for the other changes.
Unsent(change) ==
    LET out == processChange(change, defaultTTL,
                             [get |-> [err |-> TRUE, status |-> 0, body |-> NullBody],
                              write |-> [err |-> TRUE, status |-> 0], order |-> <<>>])
    IN  IF out.requests = <<>> THEN out.response ELSE Nil

NoGet == [err |-> TRUE, status |-> 0, body |-> NullBody]

NoLocals == [index |-> 0, get |-> NoGet, result |-> Nil]

InitPoolOf(requests) ==
    /\ dryRun = FALSE
    /\ defaultTTL = 300
    /\ domainFilters = <<>>
    /\ pc = [p \in {Handler} \cup Workers |-> IF p = Handler THEN "bind" ELSE "unstarted"]
    /\ ApplyIdle
    /\ heap = <<>>
    /\ workChan = [buf |-> <<>>, closed |-> FALSE]
    /\ wg = 0
    /\ mu = 0
    /\ results = <<>>
    /\ local = [p \in {Handler} \cup Workers |-> NoLocals]
    /\ processed = <<>>
    /\ stop = <<>>
    /\ webhookErrCh = <<>>
    /\ healthErrCh = <<>>
    /\ \/ /\ store = [u \in {PoolURL} |-> NullBody]
          /\ args = [decodable |-> FALSE, changes |-> <<>>, store |-> store]
       \/ \E request \in requests :
             /\ store \in PoolStores
             /\ args = [decodable |-> TRUE, changes |-> request, store |-> store]
             /\ (\A i \in 1..Len(request) : Unsent(request[i]) # Nil) =>
                    store[PoolURL] = NullBody
    /\ ret = [status |-> NoStatus, results |-> <<>>]

InitPool == InitPoolOf(PoolRequests)

InitPoolFair == InitPoolOf(PoolOneByOne)

\* ShouldBindJSON fails.
handlePostRecordsBadRequest ==
    /\ pc[Handler] = "bind"
    /\ ~args.decodable
    /\ pc' = [pc EXCEPT ![Handler] = "responded"]
    /\ ret' = [ret EXCEPT !.status = StatusBadRequest]
    /\ UNCHANGED <<clientVars, procVars, applyVars, heap, args>>

\* The changes are bound; results and workChan are made.
handlePostRecordsBind ==
    /\ pc[Handler] = "bind"
    /\ args.decodable
    /\ changes' = args.changes
    /\ results' = [i \in 1..Len(args.changes) |-> Nil]
    /\ processed' = [i \in 1..Len(args.changes) |-> <<>>]
    /\ workChan' = [buf |-> <<>>, closed |-> FALSE]
    /\ pc' = [pc EXCEPT ![Handler] = "spawn"]
    /\ UNCHANGED <<clientVars, mainVars, groups, todo, calls, err, heap, args, ret,
                   wg, mu, local, store>>

\* One pass of the loop that starts the workers: wg.Add(1) and go.
handlePostRecordsSpawn ==
    /\ pc[Handler] = "spawn"
    /\ LET w == local[Handler].index + 1
       IN  /\ wg' = wg + 1
           /\ IF w = workerCount
              THEN /\ pc' = [pc EXCEPT ![w] = "range", ![Handler] = "send"]
                   /\ local' = [local EXCEPT ![Handler].index = 0]
              ELSE /\ pc' = [pc EXCEPT ![w] = "range"]
                   /\ local' = [local EXCEPT ![Handler].index = w]
    /\ UNCHANGED <<clientVars, mainVars, applyVars, heap, args, ret,
                   workChan, mu, results, store, processed>>

\* workChan <- i: blocks while the buffer of len(changes) slots is full.
handlePostRecordsSend ==
    /\ pc[Handler] = "send"
    /\ local[Handler].index < Len(changes)
    /\ Len(workChan.buf) < Len(changes)
    /\ workChan' = [workChan EXCEPT !.buf = Append(@, local[Handler].index + 1)]
    /\ local' = [local EXCEPT ![Handler].index = @ + 1]
    /\ UNCHANGED <<clientVars, mainVars, applyVars, heap, args, ret, pc,
                   wg, mu, results, store, processed>>

\* close(workChan)
handlePostRecordsClose ==
    /\ pc[Handler] = "send"
    /\ local[Handler].index = Len(changes)
    /\ workChan' = [workChan EXCEPT !.closed = TRUE]
    /\ pc' = [pc EXCEPT ![Handler] = "wait"]
    /\ UNCHANGED <<clientVars, mainVars, applyVars, heap, args, ret,
                   wg, mu, results, local, store, processed>>

\* wg.Wait() returns; the status is 207 when a result is an ErrorResponse.
handlePostRecordsRespond ==
    /\ pc[Handler] = "wait"
    /\ wg = 0
    /\ ret' = [status |-> IF \E i \in 1..Len(results) : "Error" \in DOMAIN results[i]
                          THEN StatusMultiStatus ELSE StatusOK,
               results |-> results]
    /\ pc' = [pc EXCEPT ![Handler] = "responded"]
    /\ UNCHANGED <<clientVars, procVars, applyVars, heap, args>>

\* Faulty variant of recv: the value received stays in the channel.
recvKeep(ch) == ch

\* The channel after a receive.
recv(ch) == [ch EXCEPT !.buf = Tail(@)]

Finished(w, index, result) ==
    /\ local' = [local EXCEPT ![w] = [@ EXCEPT !.index = index, !.result = result]]
    /\ processed' = [processed EXCEPT ![index] = Append(@, result)]
    /\ pc' = [pc EXCEPT ![w] = "store"]

\* for index := range workChan: a value is received.  processChange returns
\* at once, without a request, for a change it refuses.
workerReceive(w) ==
    /\ pc[w] = "range"
    /\ workChan.buf # <<>>
    /\ workChan' = recv(workChan)
    /\ LET index == Head(workChan.buf)
       IN  IF Unsent(changes[index]) # Nil
           THEN Finished(w, index, Unsent(changes[index]))
           ELSE /\ local' = [local EXCEPT ![w] = [NoLocals EXCEPT !.index = index]]
                /\ pc' = [pc EXCEPT ![w] = "process"]
                /\ UNCHANGED processed
    /\ UNCHANGED <<clientVars, mainVars, applyVars, heap, args, ret,
                   wg, mu, results, store>>

\* The channel is closed and empty: the loop ends and wg.Done() runs.
workerExit(w) ==
    /\ pc[w] = "range"
    /\ workChan.buf = <<>>
    /\ workChan.closed
    /\ wg' = wg - 1
    /\ pc' = [pc EXCEPT ![w] = "done"]
    /\ UNCHANGED <<clientVars, mainVars, applyVars, heap, args, ret,
                   workChan, mu, results, local, store, processed>>

\* What the provider answers to the GET of an RRSet, or client.Do fails.
GetAnswers(body) ==
    { NoGet,
      IF body = NullBody THEN [err |-> FALSE, status |-> 404, body |-> NullBody]
      ELSE [err |-> FALSE, status |-> 200, body |-> body] }

\* What the provider answers to a write: a POST for an RRSet it holds and a
\* PUT for one it does not hold are refused.
WriteAnswers(request, body) ==
    { [err |-> FALSE, status |-> 500] }
    \cup (IF \/ request.method = "POST" /\ body # NullBody
             \/ request.method = "PUT" /\ body = NullBody
          THEN { [err |-> FALSE, status |-> 400] }
          ELSE { [err |-> FALSE, status |-> 200] })

\* The RRSet held after a write that the provider has accepted.
HeldAfter(request, answer, body) ==
    IF answer.err \/ answer.status >= 400 THEN body
    ELSE IF request.method = "DELETE" THEN NullBody
    ELSE request.body

\* processChange up to the answer to its GET request.
workerProcess(w) ==
    /\ pc[w] = "process"
    /\ LET change == changes[local[w].index]
           url == processChange(change, defaultTTL,
                                [get |-> NoGet, write |-> [err |-> TRUE, status |-> 0],
                                 order |-> <<>>]).requests[1].url
       IN  \E get \in GetAnswers(store[url]) :
               LET out == processChange(change, defaultTTL,
                                        [get |-> get, write |-> [err |-> TRUE, status |-> 0],
                                         order |-> <<>>])
               IN  IF Len(out.requests) = 1
                   THEN Finished(w, local[w].index, out.response)
                   ELSE /\ local' = [local EXCEPT ![w].get = get]
                        /\ pc' = [pc EXCEPT ![w] = "write"]
                        /\ UNCHANGED processed
    /\ UNCHANGED <<clientVars, mainVars, applyVars, heap, args, ret,
                   workChan, wg, mu, results, store>>

\* processChange from the request that writes to its return.
workerWrite(w) ==
    /\ pc[w] = "write"
    /\ LET change == changes[local[w].index]
           get == local[w].get
           orders == IF change.Action = "DELETE" THEN { <<>> }
                     ELSE Orders(Unique(change.Record.Targets, [get |-> get]))
       IN  \E order \in orders :
               LET sent == processChange(change, defaultTTL,
                                         [get |-> get, write |-> [err |-> TRUE, status |-> 0],
                                          order |-> order]).requests[2]
               IN  \E answer \in WriteAnswers(sent, store[sent.url]) :
                       LET out == processChange(change, defaultTTL,
                                                [get |-> get, write |-> answer, order |-> order])
                       IN  /\ store' = [store EXCEPT ![sent.url] = HeldAfter(sent, answer, @)]
                           /\ Finished(w, local[w].index, out.response)
    /\ UNCHANGED <<clientVars, mainVars, applyVars, heap, args, ret,
                   workChan, wg, mu, results>>

\* Faulty variant of storeResult: the result is stored in the first slot.
storeResultFirst(slots, index, result) == [slots EXCEPT ![1] = result]

\* results[index] = result
storeResult(slots, index, result) == [slots EXCEPT ![index] = result]

\* mu.Lock(); results[index] = result; mu.Unlock(): the critical section
\* is one step, taken when the mutex is free.
workerStore(w) ==
    /\ pc[w] = "store"
    /\ mu = 0
    /\ results' = storeResult(results, local[w].index, local[w].result)
    /\ mu' = 0
    /\ local' = [local EXCEPT ![w] = NoLocals]
    /\ pc' = [pc EXCEPT ![w] = "range"]
    /\ UNCHANGED <<clientVars, mainVars, applyVars, heap, args, ret,
                   workChan, wg, store, processed>>

NextPool ==
    \/ handlePostRecordsBadRequest
    \/ handlePostRecordsBind
    \/ handlePostRecordsSpawn
    \/ handlePostRecordsSend
    \/ handlePostRecordsClose
    \/ handlePostRecordsRespond
    \/ \E w \in Workers : workerReceive(w)
    \/ \E w \in Workers : workerExit(w)
    \/ \E w \in Workers : workerProcess(w)
    \/ \E w \in Workers : workerWrite(w)
    \/ \E w \in Workers : workerStore(w)

SpecPool == InitPool /\ [][NextPool]_vars

\* The scheduler runs a goroutine whenever one can take a step.
SpecPoolFair == InitPoolFair /\ [][NextPool]_vars /\ WF_vars(NextPool)

\* The request has been bound and answered.
Answered == pc[Handler] = "responded" /\ args.decodable

\* processChange has been called at most once for every change, and when
\* the handler has answered, exactly once; every slot of the results then
\* holds what processChange returned for the change of its index, and every
\* worker has ended.
EveryChangeOnce ==
    /\ \A i \in 1..Len(processed) : Len(processed[i]) <= 1
    /\ Answered =>
          /\ Len(ret.results) = Len(changes)
          /\ \A i \in 1..Len(changes) :
                /\ Len(processed[i]) = 1
                /\ ret.results[i] = processed[i][1]
                /\ ret.results[i] # Nil
          /\ \A w \in Workers : pc[w] = "done"

\* C28: every change is processed exactly once by the 5 workers, its result
\* is stored at its index, the handler answers only when every change has a
\* result, and the handler does answer, whatever the number of changes.
C28_WorkerPool == []EveryChangeOnce /\ <>(pc[Handler] = "responded")

\* A request of more changes than workers has been answered with a result
\* for each change.
C28_Witness ==
    /\ Answered
    /\ Len(changes) > workerCount
    /\ ret.status = StatusMultiStatus
    /\ ret.results[1] = [Error |-> <<"Unsupported action: ", "PATCH">>]
    /\ ret.results[Len(changes)] = [Error |-> <<"Invalid change request">>]

----------------------------------------------------------------------------
(* Several changes for one record in a request. *)

\* The records an RRSet of the provider holds.
RecordsOf(body) == IF body = NullBody THEN {} ELSE Range(body.Records)

\* C29 (as claimed): when a request of several CREATE or UPDATE changes for
\* the same record name and type has been answered and every change has
\* succeeded, the provider's RRSet holds every target of every change and
\* the records it held before the request.
C29_AllTargetsKept ==
    (/\ Answered
     /\ Len(changes) >= 2
     /\ \A i \in 1..Len(changes) :
           /\ changes[i].Action \in {"CREATE", "UPDATE"}
           /\ changes[i].Record.Name = changes[1].Record.Name
           /\ changes[i].Record.Type = changes[1].Record.Type
           /\ ret.results[i] = SuccessResponse) =>
        /\ RecordsOf(args.store[PoolURL]) \subseteq RecordsOf(store[PoolURL])
        /\ \A i \in 1..Len(changes) :
              Range(changes[i].Record.Targets) \subseteq RecordsOf(store[PoolURL])

----------------------------------------------------------------------------
(* Specification SpecMain: main of the webhook binary from the moment both *)
(* servers run in their goroutines.  pc is indexed by "main", "webhook"    *)
(* and "health"; local holds the error Run has returned in each server's   *)
(* goroutine; calls is the list of Shutdown calls main has made.           *)

Servers == {"webhook", "health"}

Signals == {"SIGINT", "SIGTERM"}

\* Capacity of stop, webhookErrCh and healthErrCh.
ChanCap == 1

InitMain ==
    /\ \E config \in Configs :
          LET d == CreateDesecClient(config)
          IN  /\ dryRun = d.dryRun
              /\ defaultTTL = d.defaultTTL
              /\ domainFilters = d.domainFilters
    /\ pc = [main |-> "select", webhook |-> "run", health |-> "run"]
    /\ ApplyIdle
    /\ heap = <<>>
    /\ workChan = [buf |-> <<>>, closed |-> FALSE]
    /\ wg = 0
    /\ mu = 0
    /\ results = <<>>
    /\ local = [webhook |-> "nil", health |-> "nil"]
    /\ store = <<>>
    /\ processed = <<>>
    /\ stop = <<>>
    /\ webhookErrCh = <<>>
    /\ healthErrCh = <<>>
    /\ args = <<>>
    /\ ret = <<>>

\* The error channel of a server.
ErrCh(server) == IF server = "webhook" THEN webhookErrCh ELSE healthErrCh

\* The servers main has called Shutdown on.
ShutDown == { calls[i].server : i \in 1..Len(calls) }

\* The process is alive until main returns.
Alive == pc.main # "terminated"

\* signal.Notify delivers a signal without blocking: it is dropped when the
\* channel is full.
Signal(sig) ==
    /\ Alive
    /\ stop' = IF Len(stop) < ChanCap THEN Append(stop, sig) ELSE stop
    /\ UNCHANGED <<clientVars, poolVars, applyVars, heap, args, ret, pc,
                   webhookErrCh, healthErrCh>>

\* Run returns an error other than http.ErrServerClosed.
RunFails(server, e) ==
    /\ Alive
    /\ pc[server] = "run"
    /\ server \notin ShutDown
    /\ local' = [local EXCEPT ![server] = e]
    /\ pc' = [pc EXCEPT ![server] = "report"]
    /\ UNCHANGED <<clientVars, mainVars, applyVars, heap, args, ret,
                   workChan, wg, mu, results, store, processed>>

\* Run returns http.ErrServerClosed after Shutdown: the goroutine ends.
RunClosed(server) ==
    /\ Alive
    /\ pc[server] = "run"
    /\ server \in ShutDown
    /\ local' = [local EXCEPT ![server] = "ErrServerClosed"]
    /\ pc' = [pc EXCEPT ![server] = "ended"]
    /\ UNCHANGED <<clientVars, mainVars, applyVars, heap, args, ret,
                   workChan, wg, mu, results, store, processed>>

\* webhookErrCh <- err, healthErrCh <- err: blocks while the channel is full.
Report(server) ==
    /\ Alive
    /\ pc[server] = "report"
    /\ Len(ErrCh(server)) < ChanCap
    /\ IF server = "webhook"
       THEN /\ webhookErrCh' = Append(webhookErrCh, local[server])
            /\ UNCHANGED healthErrCh
       ELSE /\ healthErrCh' = Append(healthErrCh, local[server])
            /\ UNCHANGED webhookErrCh
    /\ pc' = [pc EXCEPT ![server] = "ended"]
    /\ UNCHANGED <<clientVars, poolVars, applyVars, heap, args, ret, stop>>

\* The select of main receives from one of the three channels.
SelectStop ==
    /\ pc.main = "select"
    /\ stop # <<>>
    /\ stop' = Tail(stop)
    /\ pc' = [pc EXCEPT !.main = "shutdown"]
    /\ UNCHANGED <<clientVars, poolVars, applyVars, heap, args, ret,
                   webhookErrCh, healthErrCh>>

SelectWebhookErr ==
    /\ pc.main = "select"
    /\ webhookErrCh # <<>>
    /\ webhookErrCh' = Tail(webhookErrCh)
    /\ pc' = [pc EXCEPT !.main = "shutdown"]
    /\ UNCHANGED <<clientVars, poolVars, applyVars, heap, args, ret, stop, healthErrCh>>

SelectHealthErr ==
    /\ pc.main = "select"
    /\ healthErrCh # <<>>
    /\ healthErrCh' = Tail(healthErrCh)
    /\ pc' = [pc EXCEPT !.main = "shutdown"]
    /\ UNCHANGED <<clientVars, poolVars, applyVars, heap, args, ret, stop, webhookErrCh>>

\* Faulty variant of shutdownSequence: the health server is shut down first.
shutdownSequenceHealthFirst == <<"health", "webhook">>

\* The servers in the order main shuts them down.
shutdownSequence == <<"webhook", "health">>

\* server.Shutdown(ctx), then healthServer.Shutdown(ctx): each returns nil
\* or an error within the timeout of the context; main returns after the
\* second.
Shutdown(e) ==
    /\ pc.main = "shutdown"
    /\ calls' = Append(calls, [server |-> shutdownSequence[Len(calls) + 1], err |-> e])
    /\ pc' = [pc EXCEPT !.main = IF Len(calls') = Len(shutdownSequence)
                                 THEN "terminated" ELSE "shutdown"]
    /\ UNCHANGED <<clientVars, procVars, changes, groups, todo, err, heap, args, ret>>

MainStep ==
    \/ SelectStop
    \/ SelectWebhookErr
    \/ SelectHealthErr
    \/ \E e \in Errors \cup {"nil"} : Shutdown(e)

NextMain ==
    \/ \E sig \in Signals : Signal(sig)
    \/ \E server \in Servers, e \in Errors : RunFails(server, e)
    \/ \E server \in Servers : RunClosed(server)
    \/ \E server \in Servers : Report(server)
    \/ SelectStop
    \/ SelectWebhookErr
    \/ SelectHealthErr
    \/ \E e \in Errors \cup {"nil"} : Shutdown(e)

SpecMain == InitMain /\ [][NextMain]_vars

\* The scheduler runs main and the goroutines of the servers when they can
\* take a step.
SpecMainFair ==
    /\ SpecMain
    /\ WF_vars(MainStep)
    /\ \A server \in Servers : WF_vars(Report(server))

\* A signal is waiting in stop, or Run has returned an error other than
\* ErrServerClosed in a server's goroutine.
Triggered ==
    \/ stop # <<>>
    \/ \E server \in Servers : pc[server] = "report" \/ ErrCh(server) # <<>>

\* The send of a goroutine that reports its error can be made.
NeverBlocks == \A server \in Servers : pc[server] = "report" => ErrCh(server) = <<>>

\* Shutdown is called on the webhook server, then on the health server, and
\* on both before main returns.
ShutdownInOrder ==
    /\ Len(calls) <= 2
    /\ Len(calls) >= 1 => calls[1].server = "webhook"
    /\ Len(calls) = 2 => calls[2].server = "health"
    /\ pc.main = "terminated" => Len(calls) = 2

\* C30: after a signal or a Run error main shuts down the webhook server,
\* then the health server, and terminates; a server's goroutine that reports
\* its error is never blocked, also when both servers fail or a failure
\* comes with the signal.
C30_GracefulShutdown ==
    /\ [](NeverBlocks /\ ShutdownInOrder)
    /\ Triggered ~> (pc.main = "terminated")

\* Both servers have failed and a signal has arrived; main has received the
\* signal and terminated, and both errors have been sent.
C30_Witness ==
    /\ pc.main = "terminated"
    /\ pc.webhook = "ended"
    /\ pc.health = "ended"
    /\ webhookErrCh # <<>>
    /\ healthErrCh # <<>>
    /\ Len(calls) = 2

====
